---- MODULE Spec2Model ----
(***************************************************************************)
(* Cross-crate merge engine of rustdoc: SortedTemplate (sorted_template.rs) *)
(* and the merge driver write_shared / write_rendered_cci                  *)
(* (write_shared.rs).                                                      *)
(*                                                                         *)
(* A Rust String is modelled as a sequence of bytes; a byte is written as  *)
(* a one-character string ("a", ",", "\n"), and the two bytes of the UTF-8 *)
(* encoding of U+00E9 as "C3" (lead byte) and "A9" (continuation byte).    *)
(***************************************************************************)
EXTENDS Integers, Sequences, FiniteSets, TLC

----------------------------------------------------------------------------
(* Bytes and strings (std::string::String, str)                            *)

\* The printable ASCII characters 32..95 in code order.
PrintableLow ==
  << " ", "!", "\"", "#", "$", "%", "&", "'", "(", ")", "*", "+", ",", "-",
     ".", "/", "0", "1", "2", "3", "4", "5", "6", "7", "8", "9", ":", ";",
     "<", "=", ">", "?", "@", "A", "B", "C", "D", "E", "F", "G", "H", "I",
     "J", "K", "L", "M", "N", "O", "P", "Q", "R", "S", "T", "U", "V", "W",
     "X", "Y", "Z", "[", "\\", "]", "^", "_" >>

\* The printable ASCII characters 97..126 in code order.
PrintableHigh ==
  << "a", "b", "c", "d", "e", "f", "g", "h", "i", "j", "k", "l", "m", "n",
     "o", "p", "q", "r", "s", "t", "u", "v", "w", "x", "y", "z", "{", "|",
     "}", "~" >>

\* The value of each byte: what Ord for str (and so BTreeSet<String>) compares.
ByteVal ==
  [b \in {PrintableLow[i] : i \in 1..Len(PrintableLow)}
          \cup {PrintableHigh[i] : i \in 1..Len(PrintableHigh)}
          \cup {"\n", "C3", "A9"} |->
     CASE b = "\n" -> 10
       [] b = "C3" -> 195
       [] b = "A9" -> 169
       [] \E i \in 1..Len(PrintableLow) : PrintableLow[i] = b ->
            31 + (CHOOSE i \in 1..Len(PrintableLow) : PrintableLow[i] = b)
       [] OTHER ->
            96 + (CHOOSE i \in 1..Len(PrintableHigh) : PrintableHigh[i] = b)]

\* A UTF-8 continuation byte (0b10xxxxxx): never the first byte of a character.
IsContinuation(b) == ByteVal[b] >= 128 /\ ByteVal[b] < 192

\* str::is_char_boundary: 0 and len are boundaries, an index past the end is
\* not, and an index inside the string is one unless it points at a
\* continuation byte.
IsCharBoundary(s, index) ==
  \/ index = 0
  \/ index = Len(s)
  \/ index < Len(s) /\ ~IsContinuation(s[index + 1])

\* Ord for str: byte-wise lexicographic comparison, a proper prefix first.
RECURSIVE StrLess(_, _)
StrLess(a, b) ==
  IF b = <<>> THEN FALSE
  ELSE IF a = <<>> THEN TRUE
  ELSE IF ByteVal[a[1]] # ByteVal[b[1]] THEN ByteVal[a[1]] < ByteVal[b[1]]
  ELSE StrLess(Tail(a), Tail(b))

StartsWith(s, p) == Len(p) <= Len(s) /\ SubSeq(s, 1, Len(p)) = p
EndsWith(s, p) == Len(p) <= Len(s) /\ SubSeq(s, Len(s) - Len(p) + 1, Len(s)) = p

\* The text after / before a prefix or suffix known to be there
\* (str::strip_prefix, str::strip_suffix once they returned Some).
DropPrefix(s, p) == SubSeq(s, Len(p) + 1, Len(s))
DropSuffix(s, p) == SubSeq(s, 1, Len(s) - Len(p))

\* The indices at which pattern p occurs in s; for a non-empty p.
Occurrences(s, p) ==
  {i \in 1..(Len(s) - Len(p) + 1) : SubSeq(s, i, i + Len(p) - 1) = p}

Max(S) == CHOOSE x \in S : \A y \in S : y <= x
Min(S) == CHOOSE x \in S : \A y \in S : x <= y

----------------------------------------------------------------------------
(* The locator: struct Offset and its serde_json encoding                  *)

Digits == <<"0", "1", "2", "3", "4", "5", "6", "7", "8", "9">>

\* The serde_json encoding of a usize: decimal, no leading zero.
RECURSIVE Dec(_)
Dec(n) == IF n < 10 THEN <<Digits[n + 1]>> ELSE Dec(n \div 10) \o <<Digits[(n % 10) + 1]>>

IsDigit(b) == \E i \in 1..10 : Digits[i] = b
DigitVal(b) == (CHOOSE i \in 1..10 : Digits[i] = b) - 1

\* A JSON number that is a usize: digits only, "0" or no leading zero.
IsNatText(s) ==
  /\ s # <<>>
  /\ \A i \in 1..Len(s) : IsDigit(s[i])
  /\ (Len(s) > 1 => s[1] # "0")

RECURSIVE NatOf(_)
NatOf(s) == IF s = <<>> THEN 0 ELSE 10 * NatOf(SubSeq(s, 1, Len(s) - 1)) + DigitVal(s[Len(s)])

RECURSIVE JoinWith(_, _)
\* The strings of a sequence with sep between adjacent ones.
JoinWith(strs, sep) ==
  IF strs = <<>> THEN <<>>
  ELSE IF Len(strs) = 1 THEN strs[1]
  ELSE strs[1] \o sep \o JoinWith(Tail(strs), sep)

RECURSIVE SplitOn(_, _)
\* str::split on a one-byte separator: the pieces between the separators.
SplitOn(s, b) ==
  IF \A i \in 1..Len(s) : s[i] # b THEN <<s>>
  ELSE LET k == Min({i \in 1..Len(s) : s[i] = b})
       IN <<SubSeq(s, 1, k - 1)>> \o SplitOn(SubSeq(s, k + 1, Len(s)), b)

StartKey == <<"{", "\"", "s", "t", "a", "r", "t", "\"", ":">>
DeltaKey == <<",", "\"", "d", "e", "l", "t", "a", "\"", ":", "[">>
OffsetEnd == <<"]", "}">>

\* serde_json::to_string(&Offset { start, delta }): the fields in declaration
\* order, compact.
OffsetToJson(offset) ==
  StartKey \o Dec(offset.start) \o DeltaKey
    \o JoinWith([i \in 1..Len(offset.delta) |-> Dec(offset.delta[i])], <<",">>)
    \o OffsetEnd

\* serde_json::from_str::<Offset>, for the compact encoding that to_string
\* emits: {"start":N,"delta":[N,...]}.  The other texts it is applied to
\* here are ones serde_json rejects (a missing field, a negative number,
\* trailing characters, no JSON), and are decode errors.
OffsetFromJson(s) ==
  IF ~StartsWith(s, StartKey) \/ ~EndsWith(s, OffsetEnd) THEN [ok |-> FALSE]
  ELSE
    LET rest == DropSuffix(DropPrefix(s, StartKey), OffsetEnd)
        stops == {i \in 1..Len(rest) : ~IsDigit(rest[i])}
        n == IF stops = {} THEN Len(rest) ELSE Min(stops) - 1
        startText == SubSeq(rest, 1, n)
        tail == SubSeq(rest, n + 1, Len(rest))
    IN IF ~IsNatText(startText) \/ ~StartsWith(tail, DeltaKey) THEN [ok |-> FALSE]
       ELSE
         LET list == DropPrefix(tail, DeltaKey)
             items == IF list = <<>> THEN <<>> ELSE SplitOn(list, ",")
         IN IF \E i \in 1..Len(items) : ~IsNatText(items[i]) THEN [ok |-> FALSE]
            ELSE [ok |-> TRUE,
                  start |-> NatOf(startText),
                  delta |-> [i \in 1..Len(items) |-> NatOf(items[i])]]

----------------------------------------------------------------------------
(* SortedTemplate<F>                                                       *)

Formats == {"Js", "Html"}

COMMENT_START(F) == IF F = "Html" THEN <<"<", "!", "-", "-">> ELSE <<"/", "/">>
COMMENT_END(F) == IF F = "Html" THEN <<"-", "-", ">">> ELSE <<>>
SEPARATOR(F) == IF F = "Html" THEN <<>> ELSE <<",">>

\* A Vec used as the set: a new string is pushed at the end.
RECURSIVE VecPushNew(_, _)
VecPushNew(contents, insert) ==
  IF contents = <<>> THEN <<insert>>
  ELSE IF contents[1] = insert THEN contents
  ELSE <<contents[1]>> \o VecPushNew(Tail(contents), insert)

\* A sorted list that keeps a string as often as it was inserted.
RECURSIVE SortedInsertDup(_, _)
SortedInsertDup(contents, insert) ==
  IF contents = <<>> THEN <<insert>>
  ELSE IF StrLess(contents[1], insert)
       THEN <<contents[1]>> \o SortedInsertDup(Tail(contents), insert)
  ELSE <<insert>> \o contents

\* BTreeSet<String>::insert on the set's ascending iteration order: the
\* string goes to its place, and is dropped when it is already there.
RECURSIVE BTreeInsert(_, _)
BTreeInsert(contents, insert) ==
  IF contents = <<>> THEN <<insert>>
  ELSE IF contents[1] = insert THEN contents
  ELSE IF StrLess(insert, contents[1]) THEN <<insert>> \o contents
  ELSE <<contents[1]>> \o BTreeInsert(Tail(contents), insert)

\* SortedTemplate::before_after
BeforeAfter(before, after) ==
  [before |-> before, after |-> after, contents |-> <<>>]

\* SortedTemplate::append
TemplateAppend(t, insert) ==
  [t EXCEPT !.contents = BTreeInsert(t.contents, insert)]

\* The loop of Display::fmt with the separator written before every content,
\* the first included.
RECURSIVE FmtContentsLeadingSep(_, _, _)
FmtContentsLeadingSep(contents, sep, F) ==
  IF contents = <<>> THEN [text |-> <<>>, delta |-> <<>>]
  ELSE LET rest == FmtContentsLeadingSep(Tail(contents), SEPARATOR(F), F)
       IN [text |-> SEPARATOR(F) \o contents[1] \o rest.text,
           delta |-> <<Len(SEPARATOR(F)) + Len(contents[1])>> \o rest.delta]

\* The loop of Display::fmt: what is written for the contents, with the
\* deltas pushed on the way; sep is "" for the first content.
RECURSIVE FmtContents(_, _, _)
FmtContents(contents, sep, F) ==
  IF contents = <<>> THEN [text |-> <<>>, delta |-> <<>>]
  ELSE LET rest == FmtContents(Tail(contents), SEPARATOR(F), F)
       IN [text |-> sep \o contents[1] \o rest.text,
           delta |-> <<Len(sep) + Len(contents[1])>> \o rest.delta]

\* Display::fmt with a locator that starts at the beginning of the text.
FmtStartZero(t, F) ==
  LET c == FmtContents(t.contents, <<>>, F)
      offset == [start |-> 0, delta |-> c.delta]
  IN t.before \o c.text \o t.after \o <<"\n">>
       \o COMMENT_START(F) \o OffsetToJson(offset) \o COMMENT_END(F)

\* impl Display for SortedTemplate<F>
Fmt(t, F) ==
  LET c == FmtContents(t.contents, <<>>, F)
      offset == [start |-> Len(t.before), delta |-> c.delta]
  IN t.before \o c.text \o t.after \o <<"\n">>
       \o COMMENT_START(F) \o OffsetToJson(offset) \o COMMENT_END(F)

\* s.split_at(index) clamped to the text, without the test of
\* is_char_boundary.
SplitAtAnywhere(s, index) ==
  [ok |-> TRUE,
   head |-> SubSeq(s, 1, Min({index, Len(s)})),
   rest |-> SubSeq(s, Min({index, Len(s)}) + 1, Len(s))]

\* checked_split_at: None unless index is a character boundary of s.
CheckedSplitAt(s, index) ==
  IF IsCharBoundary(s, index)
  THEN [ok |-> TRUE, head |-> SubSeq(s, 1, index), rest |-> SubSeq(s, index + 1, Len(s))]
  ELSE [ok |-> FALSE]

\* The loop of from_str without the strip_prefix(sep) of each content.
RECURSIVE FromStrContentsKeepSep(_, _, _, _, _)
FromStrContentsKeepSep(s, delta, sep, contents, F) ==
  IF delta = <<>> THEN [ok |-> TRUE, contents |-> contents, after |-> s]
  ELSE LET cut == CheckedSplitAt(s, delta[1])
       IN IF ~cut.ok THEN [ok |-> FALSE]
          ELSE FromStrContentsKeepSep(cut.rest, Tail(delta), SEPARATOR(F),
                                      BTreeInsert(contents, cut.head), F)

\* The loop of from_str over offset.delta: cuts one content per delta off s
\* and inserts it into contents; Error when a cut or the separator fails.
RECURSIVE FromStrContents(_, _, _, _, _)
FromStrContents(s, delta, sep, contents, F) ==
  IF delta = <<>> THEN [ok |-> TRUE, contents |-> contents, after |-> s]
  ELSE LET cut == CheckedSplitAt(s, delta[1])
       IN IF ~cut.ok THEN [ok |-> FALSE]
          ELSE IF ~StartsWith(cut.head, sep) THEN [ok |-> FALSE]
          ELSE FromStrContents(cut.rest, Tail(delta), SEPARATOR(F),
                               BTreeInsert(contents, DropPrefix(cut.head, sep)), F)

\* The first newline of s (split_once).
FirstNewline(s) == Min({i \in 1..Len(s) : s[i] = "\n"})

\* The last newline of s, which from_str splits at (rsplit_once).
SplitPoint(s) == Max({i \in 1..Len(s) : s[i] = "\n"})

\* from_str with the comment end trimmed where it is there
\* (trim_end_matches) instead of demanded (strip_suffix).
FromStrTrimSuffix(s, F) ==
  LET newlines == {i \in 1..Len(s) : s[i] = "\n"}
  IN IF newlines = {} THEN [ok |-> FALSE]
     ELSE
       LET k == Max(newlines)
           body == SubSeq(s, 1, k - 1)
           line == SubSeq(s, k + 1, Len(s))
       IN IF ~StartsWith(line, COMMENT_START(F)) THEN [ok |-> FALSE]
          ELSE
            LET inner == DropPrefix(line, COMMENT_START(F))
                offset == OffsetFromJson(IF EndsWith(inner, COMMENT_END(F))
                                         THEN DropSuffix(inner, COMMENT_END(F))
                                         ELSE inner)
            IN IF ~offset.ok THEN [ok |-> FALSE]
               ELSE
                 LET first == CheckedSplitAt(body, offset.start)
                 IN IF ~first.ok THEN [ok |-> FALSE]
                    ELSE
                      LET c == FromStrContents(first.rest, offset.delta, <<>>, <<>>, F)
                      IN IF ~c.ok THEN [ok |-> FALSE]
                         ELSE [ok |-> TRUE,
                               before |-> first.head,
                               after |-> c.after,
                               contents |-> c.contents]

\* impl FromStr for SortedTemplate<F>
FromStr(s, F) ==
  LET newlines == {i \in 1..Len(s) : s[i] = "\n"}
  IN IF newlines = {} THEN [ok |-> FALSE]
     ELSE
       LET k == SplitPoint(s)
           body == SubSeq(s, 1, k - 1)
           line == SubSeq(s, k + 1, Len(s))
       IN IF ~StartsWith(line, COMMENT_START(F)) THEN [ok |-> FALSE]
          ELSE IF ~EndsWith(DropPrefix(line, COMMENT_START(F)), COMMENT_END(F))
               THEN [ok |-> FALSE]
          ELSE
            LET offset == OffsetFromJson(
                            DropSuffix(DropPrefix(line, COMMENT_START(F)), COMMENT_END(F)))
            IN IF ~offset.ok THEN [ok |-> FALSE]
               ELSE
                 LET first == CheckedSplitAt(body, offset.start)
                 IN IF ~first.ok THEN [ok |-> FALSE]
                    ELSE
                      LET c == FromStrContents(first.rest, offset.delta, <<>>, <<>>, F)
                      IN IF ~c.ok THEN [ok |-> FALSE]
                         ELSE [ok |-> TRUE,
                               before |-> first.head,
                               after |-> c.after,
                               contents |-> c.contents]

\* The template of a successful from_str.
Parsed(r) == [before |-> r.before, after |-> r.after, contents |-> r.contents]

----------------------------------------------------------------------------
(* State                                                                   *)

VARIABLES
  format,     \* the FileFormat F of the templates under test
  blank,      \* the template as constructed, before any append
  tpl,        \* a live SortedTemplate<F>
  tpl2,       \* a second live template built from the same blank
  supplied,   \* the strings passed to append on tpl so far
  calls2,     \* the strings passed to append on tpl2, in the order of
              \* their first call
  phase,      \* "live": tpl is in memory; "text": it was rendered to text
  text,       \* the last rendering of tpl
  lastOp,     \* the last call made on tpl
  reloaded,   \* whether tpl was rendered and parsed back at least once
  kind,       \* the artifact kind T of write_rendered_cci::<T>
  disk0,      \* the files of each output directory before any invocation
  disk,       \* the files of each output directory: cx.dst joined with a path
  fault,      \* per output path, the I/O operation that fails on it
  recFiles,   \* the persisted aggregation records (crate-info files)
  opt,        \* per invocation, its RenderOptions
  own,        \* per invocation, the parts of kind T of its own crate
  dst,        \* per invocation, its output directory cx.dst
  lock,       \* per output directory, the holders of the lock on .lock
  pc,         \* per invocation, where write_shared is
  crates_info,\* per invocation, the records it merges, as parts of kind T
  idx,        \* per invocation, the next of the flattened path_parts
  layout,     \* how the FxHashMap places the output paths in its buckets
  templates,  \* per invocation, the templates map of write_rendered_cci
  inserted,   \* per invocation, the keys of templates in insertion order
  towrite,    \* per invocation, the entries of templates not yet written,
              \* in the iteration order of the map
  cur,        \* per invocation, the path of the file it has open
  result,     \* per invocation, what write_shared returned
  marker,     \* the second argument of SortedTemplate::magic
  jkind,      \* which SortedJson constructor is under test
  items,      \* the items passed to the first call of the constructor
  items2,     \* the items passed to the second call
  json,       \* what the first call returned
  json2,      \* what the second call returned
  ties,       \* how the unstable sort leaves items that compare equal
  shared_layout, \* cx.shared.layout: the page text around the content
  fs0,        \* the trees under src and dst before copy_dir_all
  fs,         \* the trees under src and dst
  dirs,       \* the Vec dirs of copy_dir_all_mono, as paths below src and dst
  reading,    \* the directory whose entries are being copied, and those left
  copy_pc,    \* where copy_dir_all_mono is
  copy_result, \* what copy_dir_all returned
  disk1,      \* the files of each output directory between two merge passes
  hierarchy,  \* the Hierarchy under the root: its nodes and their file names
  sources,    \* the paths of local_sources not yet passed to add_path
  file_path,  \* the argument path of the running call of add_path
  h,          \* the node add_path stands at, as the names from the root
  elems,      \* the components the iterator of add_path has yet to yield
  add_pc      \* where add_path is

tvars == <<format, blank, tpl, tpl2, supplied, calls2, phase, text, lastOp, reloaded>>

envvars == <<kind, disk0, fault, layout, recFiles, opt, own, dst>>

mvars == <<envvars, disk, lock, pc, crates_info, idx, templates, inserted, towrite,
           cur, result>>

jvars == <<marker, jkind, items, items2, json, json2, ties>>

cvars == <<fs0, fs, dirs, reading, copy_pc, copy_result>>

hvars == <<hierarchy, sources, file_path, h, elems, add_pc>>

xvars == <<shared_layout, cvars, disk1, hvars>>

vars == <<tvars, mvars, jvars, xvars>>

\* No call of magic and none of a SortedJson constructor.
JIdle ==
  /\ marker = <<>>
  /\ jkind = "none"
  /\ items = <<>>
  /\ items2 = <<>>
  /\ json = <<>>
  /\ json2 = <<>>
  /\ ties = "kept"

\* No tree is copied.
CopyIdle ==
  /\ fs0 = <<>>
  /\ fs = <<>>
  /\ dirs = <<>>
  /\ reading = <<>>
  /\ copy_pc = "idle"
  /\ copy_result = "none"

\* No path is added to a hierarchy.
HIdle ==
  /\ hierarchy = <<>>
  /\ sources = <<>>
  /\ file_path = <<>>
  /\ h = <<>>
  /\ elems = <<>>
  /\ add_pc = "idle"

\* No page is rendered, no tree is copied and no hierarchy is built.
XIdle ==
  /\ shared_layout = << <<>>, <<>> >>
  /\ CopyIdle
  /\ disk1 = <<>>
  /\ HIdle

----------------------------------------------------------------------------
(* Inputs of the template operations                                       *)

NumFrags == 4

\* Strings passed to append: JSON-like values, the empty string, a string
\* holding the Js separator, a two-byte character.
FragPool ==
  << <<"2">>, <<"1">>, <<"1", ",", "2">>, <<>>, <<"C3", "A9">>, <<",">> >>

Frags == {FragPool[i] : i \in 1..Min({NumFrags, Len(FragPool)})}

\* (before, after) pairs: an array literal, empty texts, a suffix holding a
\* newline and a comment start, a prefix ending in a two-byte character.
Blanks ==
  { <<  <<"[">>, <<"]">>  >>,
    <<  <<>>, <<>>  >>,
    <<  <<"a", "=", "[">>, <<"]", ";", "\n", "/", "/", "x">>  >>,
    <<  <<"C3", "A9">>, <<"<", "!", "-", "-">>  >> }

----------------------------------------------------------------------------
(* Artifact kinds (impl CciPart), output files and aggregation records     *)

Range(f) == {f[i] : i \in DOMAIN f}

\* <AllCratesPart as CciPart>::blank_template
AllCratesBlank ==
  BeforeAfter(
    << "w", "i", "n", "d", "o", "w", ".", "A", "L", "L", "_", "C", "R", "A",
       "T", "E", "S", " ", "=", " ", "[" >>,
    << "]", ";" >>)

\* <SourcesPart as CciPart>::blank_template
SourcesBlank ==
  BeforeAfter(
    << "v", "a", "r", " ", "s", "r", "c", "I", "n", "d", "e", "x", " ", "=",
       " ", "n", "e", "w", " ", "M", "a", "p", "(", "[" >>,
    << "]", ")", ";", "\n", "c", "r", "e", "a", "t", "e", "S", "r", "c", "S",
       "i", "d", "e", "b", "a", "r", "(", ")", ";" >>)

Kinds == {"AllCrates", "Sources"}

\* T::blank_template(cx)
BlankTemplate(T) == IF T = "AllCrates" THEN AllCratesBlank ELSE SourcesBlank

\* T::FileFormat
FileFormatOf(T) == "Js"

Procs == {1, 2}
Dirs == {"doc", "doc2"}
Paths == {"crates.js", "sub/index.js"}
RecNames == {"r1", "r2"}

\* Parts: the serialized JSON strings "a", "b" and "c".
PartA == <<"\"", "a", "\"">>
PartB == <<"\"", "b", "\"">>
PartC == <<"\"", "c", "\"">>
Parts == {PartA, PartB}

NoFile == [exists |-> FALSE, data |-> <<>>]
File(data) == [exists |-> TRUE, data |-> data]

\* What a path held before: nothing, the output of an earlier merge of the
\* kind, or a file that is no rendering of a template.
PriorFile(T) ==
  File(Fmt(TemplateAppend(TemplateAppend(BlankTemplate(T), PartC), PartA),
           FileFormatOf(T)))
GarbageFile == File(<<"x", "\n", "/", "/", "{", "}">>)

\* The I/O operations that can fail on a path: fs::read_to_string (other
\* than with NotFound), create_dir_all, File::create, and write! or flush
\* after none, half or all but one of the bytes reached the file.
WriteFaults == {"write_none", "write_half", "write_most"}
FaultKinds == {"read", "mkdir", "create"} \cup WriteFaults

\* The bytes of rendering t that reached the file when the write failed.
Written(f, t) ==
  IF f = "write_none" THEN 0 ELSE IF f = "write_half" THEN Len(t) \div 2 ELSE Len(t) - 1

\* The bucket of each output path in the FxHashMap, when no two paths start
\* their probe sequence at the same bucket.
PathSlot == [p \in Paths |-> IF p = "crates.js" THEN 1 ELSE 2]

RECURSIVE BySlot(_)
BySlot(S) ==
  IF S = {} THEN <<>>
  ELSE LET m == CHOOSE p \in S : \A q \in S : PathSlot[p] <= PathSlot[q]
       IN <<m>> \o BySlot(S \ {m})

Layouts == {"slots", "probe"}

NoResult == [status |-> "none", path |-> ""]
Ok == [status |-> "ok", path |-> ""]
Err(path) == [status |-> "err", path |-> path]

\* The locks flock grants: any number of shared holders or one exclusive.
LockFree == [holders |-> {}, exclusive |-> FALSE]

\* flock::Lock::new(p, wait = true, create = true, exclusive) on the .lock
\* file of directory d: returns once the lock can be granted.
LockNew(i, d, exclusive) ==
  /\ IF exclusive THEN lock[d].holders = {} ELSE ~lock[d].exclusive
  /\ lock' = [lock EXCEPT ![d] = [holders |-> lock[d].holders \cup {i},
                                  exclusive |-> exclusive]]

\* Drop for flock::Lock
LockDrop(i, d) ==
  lock' = [lock EXCEPT ![d] =
             IF lock[d].holders \subseteq {i} THEN LockFree
             ELSE [lock[d] EXCEPT !.holders = lock[d].holders \ {i}]]

RECURSIVE Flatten(_)
\* crates_info.iter().map(|crate_info| crate_info.get::<T>().unwrap()
\*   .parts.iter()).flatten()
Flatten(infos) ==
  IF infos = <<>> THEN <<>> ELSE infos[1] \o Flatten(Tail(infos))

----------------------------------------------------------------------------
(* write_shared and write_rendered_cci, one invocation i                   *)

\* The variables of the merge, for the specifications that do not run it.
MIdle ==
  /\ kind = "AllCrates"
  /\ disk0 = [d \in Dirs |-> [p \in Paths |-> NoFile]]
  /\ disk = disk0
  /\ fault = [p \in Paths |-> "none"]
  /\ layout = "slots"
  /\ recFiles = [r \in RecNames |-> [ok |-> TRUE, parts |-> <<>>]]
  /\ opt = [i \in Procs |-> [read_rendered_cci |-> FALSE,
                             write_rendered_cci |-> FALSE,
                             parts_paths |-> <<>>]]
  /\ own = [i \in Procs |-> <<>>]
  /\ dst = [i \in Procs |-> "doc"]
  /\ lock = [d \in Dirs |-> LockFree]
  /\ pc = [i \in Procs |-> "done"]
  /\ crates_info = [i \in Procs |-> <<>>]
  /\ idx = [i \in Procs |-> 1]
  /\ templates = [i \in Procs |-> <<>>]
  /\ inserted = [i \in Procs |-> <<>>]
  /\ towrite = [i \in Procs |-> <<>>]
  /\ cur = [i \in Procs |-> ""]
  /\ result = [i \in Procs |-> NoResult]

\* The state of the invocations before write_shared is entered.
MStart(active) ==
  /\ disk = disk0
  /\ lock = [d \in Dirs |-> LockFree]
  /\ pc = [i \in Procs |-> IF i \in active THEN "start" ELSE "done"]
  /\ crates_info = [i \in Procs |-> <<>>]
  /\ idx = [i \in Procs |-> 1]
  /\ templates = [i \in Procs |-> <<>>]
  /\ inserted = [i \in Procs |-> <<>>]
  /\ towrite = [i \in Procs |-> <<>>]
  /\ cur = [i \in Procs |-> ""]
  /\ result = [i \in Procs |-> NoResult]

\* write_shared returns r: the function is left with the lock still held
\* until its locals are dropped.
Returns(i, r) ==
  /\ result' = [result EXCEPT ![i] = r]
  /\ pc' = [pc EXCEPT ![i] = "ret"]

\* let _lock = try_err!(flock::Lock::new(&lock_file, true, true, true), ..)
\* with a shared lock asked for.
AcquireShared(i) ==
  /\ pc[i] = "start"
  /\ LockNew(i, dst[i], FALSE)
  /\ pc' = [pc EXCEPT ![i] = "locked"]
  /\ UNCHANGED <<tvars, envvars, disk, crates_info, idx, templates, inserted, towrite, cur, result>>
  /\ UNCHANGED jvars
  /\ UNCHANGED xvars

\* let _lock = try_err!(flock::Lock::new(&lock_file, true, true, true), ..)
Acquire(i) ==
  /\ pc[i] = "start"
  /\ LockNew(i, dst[i], TRUE)
  /\ pc' = [pc EXCEPT ![i] = "locked"]
  /\ UNCHANGED <<tvars, envvars, disk, crates_info, idx, templates, inserted, towrite, cur, result>>
  /\ UNCHANGED jvars
  /\ UNCHANGED xvars

\* Lock::new fails (the .lock file cannot be created or opened): try_err!
\* returns the error, and no lock is held.
AcquireFail(i) ==
  /\ pc[i] = "start"
  /\ result' = [result EXCEPT ![i] = Err(".lock")]
  /\ pc' = [pc EXCEPT ![i] = "done"]
  /\ UNCHANGED <<tvars, envvars, disk, lock, crates_info, idx, templates, inserted, towrite, cur>>
  /\ UNCHANGED jvars
  /\ UNCHANGED xvars

\* CrateInfo::read with the record files that fail left out (filter_map)
\* instead of the first failure returned.
ReadRecordsSkipBad(i) ==
  /\ pc[i] = "locked"
  /\ LET names == opt[i].parts_paths
         good == SelectSeq(names, LAMBDA r : recFiles[r].ok)
     IN /\ crates_info' =
             [crates_info EXCEPT ![i] =
                [k \in 1..Len(good) |-> recFiles[good[k]].parts] \o <<own[i]>>]
        /\ IF opt[i].write_rendered_cci
           THEN pc' = [pc EXCEPT ![i] = "merge"] /\ UNCHANGED result
           ELSE Returns(i, Ok)
  /\ UNCHANGED <<tvars, envvars, disk, lock, idx, templates, inserted, towrite, cur>>
  /\ UNCHANGED jvars
  /\ UNCHANGED xvars

\* CrateInfo::read(&opt.parts_paths)?, crates_info.push(info), and the test
\* of opt.write_rendered_cci.
ReadRecords(i) ==
  /\ pc[i] = "locked"
  /\ LET names == opt[i].parts_paths
         bad == {k \in 1..Len(names) : ~recFiles[names[k]].ok}
     IN IF bad # {}
        THEN /\ Returns(i, Err(names[Min(bad)]))
             /\ UNCHANGED crates_info
        ELSE /\ crates_info' =
                  [crates_info EXCEPT ![i] =
                     [k \in 1..Len(names) |-> recFiles[names[k]].parts] \o <<own[i]>>]
             /\ IF opt[i].write_rendered_cci
                THEN pc' = [pc EXCEPT ![i] = "merge"] /\ UNCHANGED result
                ELSE Returns(i, Ok)
  /\ UNCHANGED <<tvars, envvars, disk, lock, idx, templates, inserted, towrite, cur>>
  /\ UNCHANGED jvars
  /\ UNCHANGED xvars

\* The order in which the FxHashMap yields its keys: a map iterates its
\* buckets in index order, and the bucket of a key follows from its hash
\* ("slots") or, for keys whose probe sequences start at the same bucket,
\* from the order of insertion ("probe").
IterOrder(keys) ==
  IF layout = "probe" THEN keys ELSE BySlot(Range(keys))

\* The Vacant arm with every error of read_to_string returned, NotFound
\* included.
LoadTemplateStrict(i, path) ==
  LET file == disk[dst[i]][path]
  IN IF ~opt[i].read_rendered_cci THEN [ok |-> TRUE, t |-> BlankTemplate(kind)]
     ELSE IF fault[path] = "read" \/ ~file.exists THEN [ok |-> FALSE]
     ELSE LET r == FromStr(file.data, FileFormatOf(kind))
          IN IF r.ok THEN [ok |-> TRUE, t |-> Parsed(r)] ELSE [ok |-> FALSE]

\* The Vacant arm with the blank template taken whenever the file cannot be
\* read or parsed (unwrap_or_else).
LoadTemplateLenient(i, path) ==
  LET file == disk[dst[i]][path]
  IN IF ~opt[i].read_rendered_cci THEN [ok |-> TRUE, t |-> BlankTemplate(kind)]
     ELSE IF fault[path] = "read" \/ ~file.exists
          THEN [ok |-> TRUE, t |-> BlankTemplate(kind)]
     ELSE LET r == FromStr(file.data, FileFormatOf(kind))
          IN [ok |-> TRUE, t |-> IF r.ok THEN Parsed(r) ELSE BlankTemplate(kind)]

\* The Vacant arm without the test of read_rendered_cci: the file is read
\* in either mode.
LoadTemplateAlwaysRead(i, path) ==
  LET file == disk[dst[i]][path]
  IN IF fault[path] = "read" THEN [ok |-> FALSE]
     ELSE IF ~file.exists THEN [ok |-> TRUE, t |-> BlankTemplate(kind)]
     ELSE LET r == FromStr(file.data, FileFormatOf(kind))
          IN IF r.ok THEN [ok |-> TRUE, t |-> Parsed(r)] ELSE [ok |-> FALSE]

\* The Vacant arm that always starts from the blank template.
LoadTemplateFresh(i, path) == [ok |-> TRUE, t |-> BlankTemplate(kind)]

\* The template a Vacant entry is filled with.
LoadTemplate(i, path) ==
  LET file == disk[dst[i]][path]
  IN IF ~opt[i].read_rendered_cci THEN [ok |-> TRUE, t |-> BlankTemplate(kind)]
     ELSE IF fault[path] = "read" THEN [ok |-> FALSE]
     ELSE IF ~file.exists THEN [ok |-> TRUE, t |-> BlankTemplate(kind)]
     ELSE LET r == FromStr(file.data, FileFormatOf(kind))
          IN IF r.ok THEN [ok |-> TRUE, t |-> Parsed(r)] ELSE [ok |-> FALSE]

\* One turn of the loop `for (path, part) in path_parts` of write_rendered_cci.
MergeStep(i) ==
  /\ pc[i] = "merge"
  /\ idx[i] <= Len(Flatten(crates_info[i]))
  /\ LET path == Flatten(crates_info[i])[idx[i]][1]
         part == Flatten(crates_info[i])[idx[i]][2]
     IN IF path \in DOMAIN templates[i]
        THEN /\ templates' = [templates EXCEPT ![i][path] = TemplateAppend(@, part)]
             /\ idx' = [idx EXCEPT ![i] = @ + 1]
             /\ UNCHANGED <<pc, result, inserted>>
        ELSE LET loaded == LoadTemplate(i, path)
             IN IF loaded.ok
                THEN /\ templates' = [templates EXCEPT ![i] =
                                        (path :> TemplateAppend(loaded.t, part)) @@ @]
                     /\ inserted' = [inserted EXCEPT ![i] = Append(@, path)]
                     /\ idx' = [idx EXCEPT ![i] = @ + 1]
                     /\ UNCHANGED <<pc, result>>
                ELSE /\ Returns(i, Err(path))
                     /\ UNCHANGED <<templates, inserted, idx>>
  /\ UNCHANGED <<tvars, envvars, disk, lock, crates_info, towrite, cur>>
  /\ UNCHANGED jvars
  /\ UNCHANGED xvars

\* The loop over path_parts is over: `for (path, template) in templates`.
MergeDone(i) ==
  /\ pc[i] = "merge"
  /\ idx[i] > Len(Flatten(crates_info[i]))
  /\ towrite' = [towrite EXCEPT ![i] = IterOrder(inserted[i])]
  /\ pc' = [pc EXCEPT ![i] = "write"]
  /\ UNCHANGED <<tvars, envvars, disk, lock, crates_info, idx, templates, inserted, cur,
                 result>>
  /\ UNCHANGED jvars
  /\ UNCHANGED xvars

\* path.parent(): the directory that create_parents creates, and the path
\* that the error of create_dir_all carries.
ParentOf(path) == IF path = "sub/index.js" THEN "sub" ELSE "."

\* create_parents(cx, &path)? and File::create(&path) for the next entry
\* that the map yields.
CreateFile(i) ==
  /\ pc[i] = "write"
  /\ towrite[i] # <<>>
  /\ LET path == Head(towrite[i])
     IN IF fault[path] \in {"mkdir", "create"}
        THEN /\ Returns(i, Err(IF fault[path] = "mkdir" THEN ParentOf(path) ELSE path))
             /\ UNCHANGED <<disk, towrite, cur>>
        ELSE /\ disk' = [disk EXCEPT ![dst[i]][path] = File(<<>>)]
             /\ towrite' = [towrite EXCEPT ![i] = Tail(@)]
             /\ cur' = [cur EXCEPT ![i] = path]
             /\ pc' = [pc EXCEPT ![i] = "writing"]
             /\ UNCHANGED result
  /\ UNCHANGED <<tvars, envvars, lock, crates_info, idx, templates, inserted>>
  /\ UNCHANGED jvars
  /\ UNCHANGED xvars

\* write!(file, "{template}") and file.flush() on the file just created.
WriteFile(i) ==
  /\ pc[i] = "writing"
  /\ LET rendering == Fmt(templates[i][cur[i]], FileFormatOf(kind))
     IN IF fault[cur[i]] \in WriteFaults
        THEN /\ disk' = [disk EXCEPT ![dst[i]][cur[i]] =
                            File(SubSeq(rendering, 1, Written(fault[cur[i]], rendering)))]
             /\ Returns(i, Err(cur[i]))
        ELSE /\ disk' = [disk EXCEPT ![dst[i]][cur[i]] = File(rendering)]
             /\ pc' = [pc EXCEPT ![i] = "write"]
             /\ UNCHANGED result
  /\ UNCHANGED <<tvars, envvars, lock, crates_info, idx, templates, inserted, towrite, cur>>
  /\ UNCHANGED jvars
  /\ UNCHANGED xvars

\* Every entry of the map is written: Ok(()).
WriteDone(i) ==
  /\ pc[i] = "write"
  /\ towrite[i] = <<>>
  /\ Returns(i, Ok)
  /\ UNCHANGED <<tvars, envvars, disk, lock, crates_info, idx, templates, inserted, towrite, cur>>
  /\ UNCHANGED jvars
  /\ UNCHANGED xvars

\* The return of write_shared without the drop of _lock.
ReturnKeepLock(i) ==
  /\ pc[i] = "ret"
  /\ IF result[i].status = "ok" THEN LockDrop(i, dst[i]) ELSE UNCHANGED lock
  /\ pc' = [pc EXCEPT ![i] = "done"]
  /\ UNCHANGED <<tvars, envvars, disk, crates_info, idx, templates, inserted, towrite, cur, result>>
  /\ UNCHANGED jvars
  /\ UNCHANGED xvars

\* The return of write_shared, by Ok(()) or by `?`: _lock is dropped.
Return(i) ==
  /\ pc[i] = "ret"
  /\ LockDrop(i, dst[i])
  /\ pc' = [pc EXCEPT ![i] = "done"]
  /\ UNCHANGED <<tvars, envvars, disk, crates_info, idx, templates, inserted, towrite, cur, result>>
  /\ UNCHANGED jvars
  /\ UNCHANGED xvars

\* The steps of invocation i.
Step(i) ==
  \/ Acquire(i)
  \/ AcquireFail(i)
  \/ ReadRecords(i)
  \/ MergeStep(i)
  \/ MergeDone(i)
  \/ CreateFile(i)
  \/ WriteFile(i)
  \/ WriteDone(i)
  \/ Return(i)

----------------------------------------------------------------------------
(* Calls on a template: append, render (format!), parse (from_str)         *)

TInit ==
  /\ format \in Formats
  /\ \E b \in Blanks : blank = BeforeAfter(b[1], b[2])
  /\ tpl = blank
  /\ tpl2 = blank
  /\ supplied = {}
  /\ calls2 = <<>>
  /\ phase = "live"
  /\ text = <<>>
  /\ lastOp = "none"
  /\ reloaded = FALSE
  /\ MIdle
  /\ JIdle
  /\ XIdle

\* template.append(insert)
AppendCall(insert) ==
  /\ phase = "live"
  /\ tpl' = TemplateAppend(tpl, insert)
  /\ supplied' = supplied \cup {insert}
  /\ lastOp' = IF insert \in supplied THEN "append_dup" ELSE "append"
  /\ UNCHANGED <<format, blank, tpl2, calls2, phase, text, reloaded, mvars>>
  /\ UNCHANGED jvars
  /\ UNCHANGED xvars

\* The same call on the second template.
AppendCall2(insert) ==
  /\ tpl2' = TemplateAppend(tpl2, insert)
  /\ calls2' = IF \E i \in 1..Len(calls2) : calls2[i] = insert
               THEN calls2 ELSE Append(calls2, insert)
  /\ UNCHANGED <<format, blank, tpl, supplied, phase, text, lastOp, reloaded, mvars>>
  /\ UNCHANGED jvars
  /\ UNCHANGED xvars

\* let text = format!("{template}")
RenderCall ==
  /\ phase = "live"
  /\ text' = Fmt(tpl, format)
  /\ phase' = "text"
  /\ lastOp' = "render"
  /\ UNCHANGED <<format, blank, tpl, tpl2, supplied, calls2, reloaded, mvars>>
  /\ UNCHANGED jvars
  /\ UNCHANGED xvars

\* let template = SortedTemplate::from_str(&text).unwrap()
ParseCall ==
  /\ phase = "text"
  /\ LET r == FromStr(text, format)
     IN IF r.ok
        THEN tpl' = Parsed(r) /\ phase' = "live" /\ reloaded' = TRUE
        ELSE tpl' = tpl /\ phase' = "panic" /\ reloaded' = reloaded
  /\ lastOp' = "parse"
  /\ UNCHANGED <<format, blank, tpl2, supplied, calls2, text, mvars>>
  /\ UNCHANGED jvars
  /\ UNCHANGED xvars

\* One template through any interleaving of append, render and parse.
TNext ==
  \/ \E insert \in Frags : AppendCall(insert)
  \/ RenderCall
  \/ ParseCall

SpecTemplate == TInit /\ [][TNext]_vars

\* Two templates from the same blank, each with its own sequence of appends.
ONext ==
  \/ \E insert \in Frags : AppendCall(insert)
  \/ \E insert \in Frags : AppendCall2(insert)

SpecAppendOrder == TInit /\ [][ONext]_vars

----------------------------------------------------------------------------
(* Invocations of write_shared                                             *)

MaxParts == 2

\* The variables of the template calls, for the specifications of the merge.
TIdle ==
  /\ format = "Js"
  /\ blank = BeforeAfter(<<>>, <<>>)
  /\ tpl = blank
  /\ tpl2 = blank
  /\ supplied = {}
  /\ calls2 = <<>>
  /\ phase = "live"
  /\ text = <<>>
  /\ lastOp = "none"
  /\ reloaded = FALSE

\* PartsAndLocations<T>: the (path, part) pairs of one record, at most n.
PartSeqs(n) == UNION {[1..k -> Paths \X Parts] : k \in 0..n}

\* Two records that hold at most MaxParts pairs together.
RecordPairs ==
  {ab \in PartSeqs(MaxParts) \X PartSeqs(MaxParts) : Len(ab[1]) + Len(ab[2]) <= MaxParts}

\* The same pairs in every order.
Perms(q) == {[k \in 1..Len(q) |-> q[f[k]]] : f \in Permutations(1..Len(q))}

\* What is wrong in the output directory or with the record file, if
\* anything: one path holds a file that is no template, or one I/O operation
\* fails on one path, or the record file does not decode.
Anomalies ==
  {<<"none", "">>, <<"badrec", "r1">>} \cup (({"garbage"} \cup FaultKinds) \X Paths)

\* The faults of the loop that writes the templates.
WritePhase == {"mkdir", "create"} \cup WriteFaults

\* The output directories (all alike before the invocations) and the faults:
\* the paths of prior hold the output of an earlier merge.
Environment(anomaly, T, lay, prior) ==
  /\ kind = T
  /\ layout = lay
  /\ disk0 = [d \in Dirs |-> [p \in Paths |->
                IF anomaly = <<"garbage", p>> THEN GarbageFile
                ELSE IF p \in prior THEN PriorFile(kind) ELSE NoFile]]
  /\ fault = [p \in Paths |->
               IF anomaly[1] \in FaultKinds /\ anomaly[2] = p THEN anomaly[1] ELSE "none"]

Options(read, write, paths) ==
  [read_rendered_cci |-> read, write_rendered_cci |-> write, parts_paths |-> paths]

\* The environments of one invocation: both kinds where nothing is wrong, and
\* both placements of the keys where a write fails.
MergeEnvironments ==
  {e \in Anomalies \X Kinds \X Layouts \X SUBSET Paths :
     /\ e[1][1] # "write_most"
     /\ e[1][1] # "none" => e[2] = "AllCrates"
     /\ e[1][1] \notin WritePhase => e[3] = "slots"
     /\ e[1][1] \in WritePhase \cup {"badrec"} => e[4] \in {{}, Paths}}

\* One invocation that merges its own parts with those of the record r1.
MergeInit ==
  /\ TIdle
  /\ \E e \in MergeEnvironments, ab \in RecordPairs, read \in BOOLEAN :
       /\ Environment(e[1], e[2], e[3], e[4])
       /\ recFiles = [r \in RecNames |->
                        [ok |-> e[1][1] # "badrec", parts |-> ab[1]]]
       /\ own = [i \in Procs |-> ab[2]]
       /\ opt = [i \in Procs |-> Options(read, TRUE, <<"r1">>)]
  /\ dst = [i \in Procs |-> "doc"]
  /\ MStart({1})
  /\ JIdle
  /\ XIdle

MergeNext == Step(1)

SpecMerge == MergeInit /\ [][MergeNext]_vars

\* The environments of the two invocations that merge the same records.
PermuteEnvironments ==
  {e \in Anomalies \X Kinds \X Layouts \X SUBSET Paths :
     /\ e[1] \in {<<"none", "">>, <<"garbage", "crates.js">>,
                  <<"create", "crates.js">>, <<"create", "sub/index.js">>}
     /\ e[2] = "AllCrates"
     /\ e[1][1] \notin WritePhase => e[3] = "slots"
     /\ e[4] \in {{}, Paths}}

\* Two invocations on two output directories that are alike, with the same
\* options: the second merges the records of the first in another order,
\* with the pairs of each record in another order.
PermuteInit ==
  /\ TIdle
  /\ \E e \in PermuteEnvironments, ab \in RecordPairs, read \in BOOLEAN, swap \in BOOLEAN :
       \E a2 \in Perms(ab[1]), b2 \in Perms(ab[2]) :
         /\ read = FALSE => e[4] = {}
         /\ Environment(e[1], e[2], e[3], e[4])
         /\ recFiles = [r \in RecNames |->
                          [ok |-> TRUE,
                           parts |-> IF r = "r1" THEN ab[1]
                                     ELSE IF swap THEN b2 ELSE a2]]
         /\ own = [i \in Procs |->
                     IF i = 1 THEN ab[2] ELSE IF swap THEN a2 ELSE b2]
         /\ opt = [i \in Procs |->
                     Options(read, TRUE, IF i = 1 THEN <<"r1">> ELSE <<"r2">>)]
  /\ dst = [i \in Procs |-> IF i = 1 THEN "doc" ELSE "doc2"]
  /\ MStart(Procs)
  /\ JIdle
  /\ XIdle

\* The second invocation runs once the first has returned.
PermuteNext ==
  \/ Step(1)
  \/ pc[1] = "done" /\ Step(2)

SpecPermute == PermuteInit /\ [][PermuteNext]_vars

\* The environments of the two invocations on one output directory.
LockEnvironments ==
  {e \in Anomalies \X Kinds \X Layouts \X SUBSET Paths :
     /\ e[1][2] \in {"", "r1", "crates.js"}
     /\ e[1][1] \notin {"mkdir", "write_none", "write_most"}
     /\ e[2] = "AllCrates"
     /\ e[3] = "probe"
     /\ e[4] \in {{}, Paths}}

\* Two invocations on the same output directory, in any interleaving; each
\* merges its own parts, at most one pair, with those of the record r1.
LockInit ==
  /\ TIdle
  /\ \E e \in LockEnvironments, a \in PartSeqs(1), b \in PartSeqs(1), read \in BOOLEAN :
       /\ Environment(e[1], e[2], e[3], e[4])
       /\ recFiles = [r \in RecNames |->
                        [ok |-> e[1][1] # "badrec", parts |-> <<>>]]
       /\ own = [i \in Procs |-> IF i = 1 THEN a ELSE b]
       /\ opt = [i \in Procs |-> Options(read, TRUE, <<"r1">>)]
  /\ dst = [i \in Procs |-> "doc"]
  /\ MStart(Procs)
  /\ JIdle
  /\ XIdle

LockNext == \E i \in Procs : Step(i)

\* The steps of invocation i other than a turn of the loop over path_parts.
Light(i) ==
  \/ Acquire(i) \/ AcquireFail(i) \/ ReadRecords(i) \/ MergeDone(i)
  \/ CreateFile(i) \/ WriteFile(i) \/ WriteDone(i) \/ Return(i)

\* WF_vars(MergeStep(i)), with ENABLED MergeStep(i) written out: a turn of
\* the loop can be taken exactly when the loop has a pair left.
MergeStepFair(i) ==
  <>[](pc[i] = "merge" /\ idx[i] <= Len(Flatten(crates_info[i])))
    => []<><<MergeStep(i)>>_vars

\* An invocation that can take a step takes one: write_shared has no wait
\* other than for the lock.
SpecLock ==
  /\ LockInit /\ [][LockNext]_vars
  /\ \A i \in Procs : WF_vars(Light(i)) /\ MergeStepFair(i)

----------------------------------------------------------------------------
(* Properties of SortedTemplate                                            *)

\* The strings of a set in ascending order.
RECURSIVE SortSet(_)
SortSet(S) ==
  IF S = {} THEN <<>>
  ELSE LET m == CHOOSE x \in S : \A y \in S \ {x} : StrLess(x, y)
       IN <<m>> \o SortSet(S \ {m})

\* Everything before the last newline of a rendering.
BodyOf(t) == SubSeq(t, 1, SplitPoint(t) - 1)

\* C1: parsing the rendering of a template succeeds and gives back the same
\* prefix, suffix and contents, and rendering the parsed template gives the
\* same text again.
RoundTrip ==
  LET rendering == Fmt(tpl, format)
      r == FromStr(rendering, format)
  IN /\ r.ok
     /\ r.before = tpl.before
     /\ r.after = tpl.after
     /\ r.contents = tpl.contents
     /\ Fmt(Parsed(r), format) = rendering

RoundTripWitness ==
  /\ lastOp = "parse"
  /\ phase = "live"
  /\ Len(tpl.contents) >= 3
  /\ "\n" \in Range(tpl.after)
  /\ format = "Js"

\* C2: two sequences of append calls that supplied the same set of strings
\* render to the same text, whatever the order and the repetitions.
OrderIndependence ==
  supplied = Range(calls2) => Fmt(tpl, format) = Fmt(tpl2, format)

OrderIndependenceWitness ==
  /\ supplied = Range(calls2)
  /\ Len(calls2) >= 3
  /\ calls2 # tpl2.contents
  /\ lastOp = "append_dup"

\* C3: appending a string that is already in the contents leaves the
\* template unchanged, so appending a string twice renders the same text as
\* appending it once.
IdempotentAppend ==
  \A insert \in Frags :
    LET once == TemplateAppend(tpl, insert)
        twice == TemplateAppend(once, insert)
    IN /\ twice = once
       /\ Fmt(twice, format) = Fmt(once, format)
       /\ (insert \in supplied => once = tpl)

IdempotentAppendWitness ==
  /\ lastOp = "append_dup"
  /\ Len(tpl.contents) >= 2

\* C4: after any interleaving of append, render and parse of the rendered
\* text, no parse has failed and the body of a rendering is the prefix of the
\* blank template, the distinct strings appended so far in ascending order
\* joined by the separator, and the suffix of the blank template.
IncrementalMerge ==
  /\ phase # "panic"
  /\ phase = "text" =>
       BodyOf(text) = blank.before
                        \o JoinWith(SortSet(supplied), SEPARATOR(format))
                        \o blank.after

IncrementalMergeWitness ==
  /\ phase = "text"
  /\ reloaded
  /\ Cardinality(supplied) >= 2
  /\ blank.before # <<>>

\* C10: a rendering is the prefix, the contents in ascending order with the
\* separator between adjacent ones only, the suffix, one newline, and a last
\* line without a newline made of the comment start, the encoded locator and
\* the comment end.
RenderLayout ==
  LET t == Fmt(tpl, format)
      body == tpl.before \o JoinWith(tpl.contents, SEPARATOR(format)) \o tpl.after
      line == SubSeq(t, Len(body) + 2, Len(t))
  IN /\ \A i, j \in 1..Len(tpl.contents) :
          i < j => StrLess(tpl.contents[i], tpl.contents[j])
     /\ Len(t) > Len(body)
     /\ SubSeq(t, 1, Len(body)) = body
     /\ t[Len(body) + 1] = "\n"
     /\ "\n" \notin Range(line)
     /\ StartsWith(line, COMMENT_START(format))
     /\ EndsWith(DropPrefix(line, COMMENT_START(format)), COMMENT_END(format))
     /\ OffsetFromJson(DropSuffix(DropPrefix(line, COMMENT_START(format)),
                                  COMMENT_END(format))).ok

RenderLayoutWitness ==
  /\ lastOp = "render"
  /\ text = Fmt(tpl, format)
  /\ Len(tpl.contents) >= 2
  /\ format = "Js"

----------------------------------------------------------------------------
(* Properties of the merge                                                 *)

\* write_shared of invocation i has returned, and from write_rendered_cci.
Merged(i) == pc[i] = "done" /\ result[i] # Err(".lock") /\ opt[i].write_rendered_cci

\* How often part occurs in the text of a file.
Count(file, part) == Cardinality(Occurrences(file.data, part))

\* C5: when two different records each contribute a part for the same output
\* path, a merge that returns Ok has written one file at that path whose
\* text holds each of the two parts exactly once.
DirectoryGrouping ==
  \A i \in Procs :
    (Merged(i) /\ result[i] = Ok) =>
      \A k1, k2 \in 1..Len(crates_info[i]) :
        k1 < k2 =>
          \A e1 \in Range(crates_info[i][k1]), e2 \in Range(crates_info[i][k2]) :
            e1[1] = e2[1] =>
              /\ disk[dst[i]][e1[1]].exists
              /\ Count(disk[dst[i]][e1[1]], e1[2]) = 1
              /\ Count(disk[dst[i]][e1[1]], e2[2]) = 1

DirectoryGroupingWitness ==
  /\ Merged(1)
  /\ result[1] = Ok
  /\ opt[1].read_rendered_cci
  /\ disk0["doc"]["crates.js"].exists
  /\ <<"crates.js", PartA>> \in Range(recFiles["r1"].parts)
  /\ own[1] = << <<"crates.js", PartB>> >>

\* C6 as stated: two merges of the same records in different orders, from
\* the same files, leave the same files at every output path.
PermutationIndependence ==
  (Merged(1) /\ Merged(2)) => disk["doc"] = disk["doc2"]

\* C6 as amended: the two merges return alike, and they leave the same files
\* at every output path when they return Ok or fail before the first write.
PermutationIndependenceOk ==
  (Merged(1) /\ Merged(2)) =>
     /\ result[1].status = result[2].status
     /\ (result[1] = Ok \/ \A p \in Paths : fault[p] \notin WritePhase) =>
          disk["doc"] = disk["doc2"]

PermutationIndependenceWitness ==
  /\ Merged(1) /\ Merged(2)
  /\ result[1] = Ok /\ result[2] = Ok
  /\ crates_info[1] # crates_info[2]
  /\ Len(inserted[1]) = 2
  /\ inserted[1] # inserted[2]
  /\ disk["doc"] = disk["doc2"]
  /\ disk["doc"] # disk0["doc"]

\* write_shared of invocation i is between the grant of the lock and its return.
InCall(i) == pc[i] \in {"locked", "merge", "write", "writing", "ret"}

\* Invocation i holds the lock of its output directory, alone.
Holds(i) == lock[dst[i]].holders = {i} /\ lock[dst[i]].exclusive

\* C7: two invocations on the same output directory are never both between
\* the grant of the lock and the return, and an invocation reads the
\* records, reads an output file or writes one only while it holds the lock.
MutualExclusion ==
  /\ [](\A i, j \in Procs :
          (i # j /\ dst[i] = dst[j]) => ~(InCall(i) /\ InCall(j)))
  /\ [][\A i \in Procs :
          (ReadRecords(i) \/ MergeStep(i) \/ CreateFile(i) \/ WriteFile(i)) => Holds(i)]_vars

MutualExclusionWitness ==
  /\ pc[1] = "writing"
  /\ pc[2] = "start"
  /\ Holds(1)

\* C8: an invocation that has returned holds no lock, and an invocation that
\* holds the lock comes to release it, on Ok and on every error.
LockReleased ==
  /\ [](\A i \in Procs : pc[i] = "done" => i \notin lock[dst[i]].holders)
  /\ \A i \in Procs :
       (i \in lock[dst[i]].holders) ~> (i \notin lock[dst[i]].holders)

LockReleasedWitness ==
  /\ pc[1] = "done"
  /\ result[1].status = "err"
  /\ result[1].path = "crates.js"
  /\ Holds(2)

\* C9: every output path holds its previous file or the complete rendering
\* of its merged template, at every point of a merge.
NoPartialFile ==
  \A d \in Dirs, p \in Paths :
    \/ disk[d][p] = disk0[d][p]
    \/ \E i \in Procs :
         /\ dst[i] = d
         /\ p \in DOMAIN templates[i]
         /\ disk[d][p] = File(Fmt(templates[i][p], FileFormatOf(kind)))

----------------------------------------------------------------------------
(* Properties of the locator                                               *)

RECURSIVE SumSeq(_)
SumSeq(q) == IF q = <<>> THEN 0 ELSE q[1] + SumSeq(Tail(q))

\* The locator that the last line of a rendered text carries, decoded.
LocatorOf(t, F) ==
  LET line == SubSeq(t, SplitPoint(t) + 1, Len(t))
  IN OffsetFromJson(DropSuffix(DropPrefix(line, COMMENT_START(F)), COMMENT_END(F)))

\* C11: in a rendered text the locator's start is the length of the prefix,
\* it has one delta per content in emission order, the first delta is the
\* length of the first content and each later one the length of the
\* separator plus that of its content, and start plus the deltas plus the
\* length of the suffix is the length of the text before the last newline.
LocatorConsistency ==
  phase = "text" =>
    LET o == LocatorOf(text, format)
        c == tpl.contents
    IN /\ o.ok
       /\ o.start = Len(tpl.before)
       /\ Len(o.delta) = Len(c)
       /\ \A k \in 1..Len(c) :
            o.delta[k] = (IF k = 1 THEN 0 ELSE Len(SEPARATOR(format))) + Len(c[k])
       /\ o.start + SumSeq(o.delta) + Len(tpl.after) = SplitPoint(text) - 1

LocatorConsistencyWitness ==
  /\ phase = "text"
  /\ format = "Js"
  /\ Len(tpl.contents) >= 3
  /\ \E k \in 1..Len(tpl.after) : tpl.after[k] = "\n"
  /\ LocatorOf(text, format).ok
  /\ LocatorOf(text, format).delta[2] = Len(tpl.contents[2]) + 1

----------------------------------------------------------------------------
(* from_str on texts that no template rendered                             *)

MaxCut == 3
MaxDeltas == 2

\* Texts before the last newline: a Js array, a two-byte character first, a
\* text holding a newline, the empty text.
ParseBodies ==
  { <<"[", "1", ",", "2", "]">>,
    <<"C3", "A9", "1">>,
    <<"a", "\n", "b">>,
    <<>> }

\* Offsets with start and every delta up to MaxCut, up to MaxDeltas deltas.
ParseOffsets ==
  {[start |-> st, delta |-> d] :
     st \in 0..MaxCut,
     d \in UNION {[1..n -> 0..MaxCut] : n \in 0..MaxDeltas}}

\* Trailer texts that serde_json does not decode as an Offset: no text, an
\* object without the fields, one without delta, a negative start, trailing
\* characters, no JSON.
BadOffsetTexts ==
  { <<>>,
    <<"{", "}">>,
    StartKey \o <<"1", "}">>,
    StartKey \o <<"-", "1">> \o DeltaKey \o OffsetEnd,
    OffsetToJson([start |-> 0, delta |-> <<>>]) \o <<"x">>,
    <<"x">> }

\* What stands before and after the locator on the last line: the comment
\* start of either format or none, and the comment end of either format.
ParseStarts == {COMMENT_START(F) : F \in Formats} \cup {<<>>}
ParseEnds == {COMMENT_END(F) : F \in Formats}

\* The texts handed to from_str: with and without a last line.
ParseInputs ==
  ParseBodies \cup
  {b \o <<"\n">> \o cs \o j \o ce :
     b \in ParseBodies, cs \in ParseStarts, ce \in ParseEnds,
     j \in {OffsetToJson(o) : o \in ParseOffsets} \cup BadOffsetTexts}

ParseInit ==
  /\ format \in Formats
  /\ text \in ParseInputs
  /\ phase = "text"
  /\ blank = BeforeAfter(<<>>, <<>>)
  /\ tpl = blank
  /\ tpl2 = blank
  /\ supplied = {}
  /\ calls2 = <<>>
  /\ lastOp = "none"
  /\ reloaded = FALSE
  /\ MIdle
  /\ JIdle
  /\ XIdle

\* let result = SortedTemplate::<F>::from_str(&text)
FromStrCall ==
  /\ phase = "text"
  /\ LET r == FromStr(text, format)
     IN IF r.ok
        THEN tpl' = Parsed(r) /\ phase' = "ok"
        ELSE tpl' = tpl /\ phase' = "error"
  /\ lastOp' = "from_str"
  /\ UNCHANGED <<format, blank, tpl2, supplied, calls2, text, reloaded, mvars>>
  /\ UNCHANGED jvars
  /\ UNCHANGED xvars

ParseNext == FromStrCall

SpecParse == ParseInit /\ [][ParseNext]_vars

\* The text has a newline; its parts around the last one.
HasLine(t) == \E i \in 1..Len(t) : t[i] = "\n"
LastLine(t) == SubSeq(t, Max({i \in 1..Len(t) : t[i] = "\n"}) + 1, Len(t))
BodyBefore(t) == SubSeq(t, 1, Max({i \in 1..Len(t) : t[i] = "\n"}) - 1)

\* The last line between the comment start and the comment end.
Unwrapped(t, F) == DropSuffix(DropPrefix(LastLine(t), COMMENT_START(F)), COMMENT_END(F))

\* The last line of t has the comment start and, after it, the comment end.
Wrapped(t, F) ==
  /\ StartsWith(LastLine(t), COMMENT_START(F))
  /\ EndsWith(DropPrefix(LastLine(t), COMMENT_START(F)), COMMENT_END(F))

\* The text has no last line, or one that lacks the comment start or the
\* comment end, or one whose locator does not decode.
MalformedTrailer(t, F) ==
  \/ ~HasLine(t)
  \/ ~StartsWith(LastLine(t), COMMENT_START(F))
  \/ ~EndsWith(LastLine(t), COMMENT_END(F))
  \/ Wrapped(t, F) /\ ~OffsetFromJson(Unwrapped(t, F)).ok

\* C12: from_str returns Error, and no template, for every text without a
\* newline, or whose last line does not begin with the comment start or does
\* not end with the comment end, or whose locator does not decode.
RejectsMalformedTrailer ==
  (lastOp = "from_str" /\ MalformedTrailer(text, format)) =>
     (phase = "error" /\ tpl = blank)

\* from_str has rejected an Html text whose locator decodes, for its
\* missing comment end.
RejectsMalformedTrailerWitness ==
  /\ lastOp = "from_str"
  /\ phase = "error"
  /\ format = "Html"
  /\ HasLine(text)
  /\ StartsWith(LastLine(text), COMMENT_START(format))
  /\ ~EndsWith(LastLine(text), COMMENT_END(format))
  /\ OffsetFromJson(DropPrefix(LastLine(text), COMMENT_START(format))).ok

\* The text has a last line whose locator decodes.
WellFormedTrailer(t, F) ==
  HasLine(t) /\ Wrapped(t, F) /\ OffsetFromJson(Unwrapped(t, F)).ok

\* The index in the body at which the k-th cut falls: start plus the first
\* k deltas.
CutPoint(o, k) == o.start + SumSeq(SubSeq(o.delta, 1, k))

\* A cut point lies beyond the body or inside a character, or a fragment
\* other than the first does not begin with the separator.
Misaligned(t, F) ==
  LET o == OffsetFromJson(Unwrapped(t, F))
      body == BodyBefore(t)
  IN \/ \E k \in 0..Len(o.delta) :
          CutPoint(o, k) > Len(body) \/ ~IsCharBoundary(body, CutPoint(o, k))
     \/ \E k \in 2..Len(o.delta) :
          /\ CutPoint(o, k) <= Len(body)
          /\ ~StartsWith(SubSeq(body, CutPoint(o, k - 1) + 1, CutPoint(o, k)),
                         SEPARATOR(F))

\* C13: on a text whose locator decodes, from_str returns Error when the
\* start or a cumulative delta falls beyond the body or inside a character,
\* or when a fragment other than the first lacks the separator; otherwise it
\* returns a template whose prefix is the text up to start and whose suffix
\* is the text after the last delta.
RejectsMisaligned ==
  (lastOp = "from_str" /\ WellFormedTrailer(text, format)) =>
     LET o == OffsetFromJson(Unwrapped(text, format))
         body == BodyBefore(text)
     IN IF Misaligned(text, format)
        THEN phase = "error" /\ tpl = blank
        ELSE /\ phase = "ok"
             /\ tpl.before = SubSeq(body, 1, o.start)
             /\ tpl.after = SubSeq(body, CutPoint(o, Len(o.delta)) + 1, Len(body))

\* from_str has rejected a text for a cut inside a two-byte character.
RejectsMisalignedWitness ==
  /\ lastOp = "from_str"
  /\ phase = "error"
  /\ WellFormedTrailer(text, format)
  /\ LET o == OffsetFromJson(Unwrapped(text, format))
     IN \E k \in 0..Len(o.delta) :
          /\ CutPoint(o, k) < Len(BodyBefore(text))
          /\ ~IsCharBoundary(BodyBefore(text), CutPoint(o, k))

\* from_str has rejected a Js text for a second fragment without the comma.
RejectsMisalignedSepWitness ==
  /\ lastOp = "from_str"
  /\ phase = "error"
  /\ format = "Js"
  /\ WellFormedTrailer(text, format)
  /\ LET o == OffsetFromJson(Unwrapped(text, format))
     IN /\ Len(o.delta) = 2
        /\ \A k \in 0..2 : IsCharBoundary(BodyBefore(text), CutPoint(o, k))

\* from_str has accepted a Js text with two fragments and a suffix.
AcceptsAlignedWitness ==
  /\ lastOp = "from_str"
  /\ phase = "ok"
  /\ format = "Js"
  /\ Len(tpl.contents) = 2
  /\ tpl.after # <<>>

----------------------------------------------------------------------------
(* SortedTemplate::magic                                                   *)

MaxTemplate == 4

\* The characters of s, each with its bytes.
RECURSIVE Chars(_)
Chars(s) ==
  IF s = <<>> THEN <<>>
  ELSE LET n == IF Len(s) >= 2 /\ IsContinuation(s[2]) THEN 2 ELSE 1
       IN <<SubSeq(s, 1, n)>> \o Chars(SubSeq(s, n + 1, Len(s)))

\* str::split(pattern) collected: the matches are searched from left to
\* right, each search starting where the last match ended, and the text
\* between them is yielded, with the rest of the text last.  The empty
\* pattern matches at every character boundary, the two ends included.
RECURSIVE Split(_, _)
Split(s, p) ==
  IF p = <<>> THEN << <<>> >> \o Chars(s) \o << <<>> >>
  ELSE IF Occurrences(s, p) = {} THEN <<s>>
  ELSE LET i == Min(Occurrences(s, p))
       IN <<SubSeq(s, 1, i - 1)>> \o Split(SubSeq(s, i + Len(p), Len(s)), p)

\* A magic that cuts at the first place of the marker, wherever else it is.
MagicFirstMatch(template, magic) ==
  LET split == Split(template, magic)
  IN IF Len(split) < 2 THEN [ok |-> FALSE]
     ELSE [ok |-> TRUE,
           t |-> BeforeAfter(split[1],
                             SubSeq(template, Len(split[1]) + Len(magic) + 1,
                                    Len(template)))]

\* SortedTemplate::magic: Error unless split yields two pieces and no third.
Magic(template, magic) ==
  LET split == Split(template, magic)
  IN IF Len(split) # 2 THEN [ok |-> FALSE]
     ELSE [ok |-> TRUE, t |-> BeforeAfter(split[1], split[2])]

\* Template texts of a, b and a two-byte character, up to MaxTemplate long.
MagicTemplates ==
  UNION {[1..n -> {"a", "b"}] : n \in 0..MaxTemplate}
    \cup { <<"a", "C3", "A9", "b">>, <<"C3", "A9">> }

\* Markers: one byte, one that overlaps itself, one that does not, the
\* empty one, a two-byte character.
MagicMarkers ==
  { <<"a">>, <<"a", "a">>, <<"a", "b">>, <<>>, <<"C3", "A9">> }

MagicInit ==
  /\ format = "Js"
  /\ blank = BeforeAfter(<<>>, <<>>)
  /\ tpl = blank
  /\ tpl2 = blank
  /\ supplied = {}
  /\ calls2 = <<>>
  /\ phase = "live"
  /\ lastOp = "none"
  /\ reloaded = FALSE
  /\ MIdle
  /\ text \in MagicTemplates
  /\ marker \in MagicMarkers
  /\ jkind = "none"
  /\ items = <<>>
  /\ items2 = <<>>
  /\ json = <<>>
  /\ json2 = <<>>
  /\ ties = "kept"
  /\ XIdle

\* let result = SortedTemplate::magic(&text, &marker)
MagicCall ==
  /\ lastOp = "none"
  /\ LET r == Magic(text, marker)
     IN IF r.ok
        THEN tpl' = r.t /\ phase' = "ok"
        ELSE tpl' = tpl /\ phase' = "error"
  /\ lastOp' = "magic"
  /\ UNCHANGED <<format, blank, tpl2, supplied, calls2, text, reloaded, mvars, jvars, xvars>>

MagicNext == MagicCall

SpecMagic == MagicInit /\ [][MagicNext]_vars

\* The indices at which marker m occurs in t as a substring.
MarkerAt(t, m) == {i \in 0..(Len(t) - Len(m)) : SubSeq(t, i + 1, i + Len(m)) = m}

\* C14: magic succeeds exactly when the marker occurs exactly once as a
\* substring of the template text, and then the template has no contents and
\* its prefix, the marker and its suffix make up the text; it returns Error
\* when the marker occurs zero times or more than once.
MarkerSplit ==
  lastOp = "magic" =>
    IF Cardinality(MarkerAt(text, marker)) = 1
    THEN /\ phase = "ok"
         /\ tpl.contents = <<>>
         /\ tpl.before \o marker \o tpl.after = text
    ELSE phase = "error"

----------------------------------------------------------------------------
(* Properties of the Vacant arm: what a merge starts from                  *)

\* The parts that the records of invocation i contribute for path p.
Contributed(i, p) ==
  {e[2] : e \in {x \in Range(Flatten(crates_info[i])) : x[1] = p}}

\* The file of the blank template of the kind with the parts contributed
\* for path p.
BlankWith(i, p) ==
  File(Fmt([BlankTemplate(kind) EXCEPT !.contents = SortSet(Contributed(i, p))],
           FileFormatOf(kind)))

\* C15: with read_rendered_cci, a contributed path that holds no file is
\* merged from the blank template: a call that returns Ok has written the
\* blank prefix and suffix around exactly the contributed parts, and the
\* call returns no error for that path unless creating or writing it fails.
MissingFallsBack ==
  \A i \in Procs, p \in Paths :
    ( /\ Merged(i)
      /\ opt[i].read_rendered_cci
      /\ Contributed(i, p) # {}
      /\ ~disk0[dst[i]][p].exists
      /\ fault[p] # "read" ) =>
       /\ result[i] = Ok => disk[dst[i]][p] = BlankWith(i, p)
       /\ result[i] = Err(p) => fault[p] \in WritePhase

MissingFallsBackWitness ==
  /\ Merged(1)
  /\ result[1] = Ok
  /\ opt[1].read_rendered_cci
  /\ ~disk0["doc"]["sub/index.js"].exists
  /\ disk0["doc"]["crates.js"].exists
  /\ Contributed(1, "sub/index.js") = Parts
  /\ disk["doc"]["sub/index.js"] = BlankWith(1, "sub/index.js")

\* With read_rendered_cci, the file at contributed path p cannot be read, or
\* is there and is no template.
Unusable(i, p) ==
  /\ opt[i].read_rendered_cci
  /\ Contributed(i, p) # {}
  /\ \/ fault[p] = "read"
     \/ /\ disk0[dst[i]][p].exists
        /\ ~FromStr(disk0[dst[i]][p].data, FileFormatOf(kind)).ok

\* C16: with read_rendered_cci, when the file at a contributed path is no
\* template or cannot be read, no template is made for that path, no file of
\* the output directory is ever changed, and the call returns an error that
\* carries the path.
CorruptIsFatal ==
  \A i \in Procs, p \in Paths :
    Unusable(i, p) =>
      /\ p \notin DOMAIN templates[i]
      /\ disk[dst[i]] = disk0[dst[i]]
      /\ Merged(i) => result[i] = Err(p)

CorruptIsFatalWitness ==
  /\ Merged(1)
  /\ Unusable(1, "crates.js")
  /\ disk0["doc"]["crates.js"] = GarbageFile
  /\ disk0["doc"]["sub/index.js"].exists
  /\ Contributed(1, "sub/index.js") # {}
  /\ result[1] = Err("crates.js")

\* C17: without read_rendered_cci, a call that returns Ok has written at
\* every contributed path the blank template with exactly the parts
\* contributed for it, and what the path held before, a template, another
\* text or nothing, and whether it can be read, decide nothing: the call
\* returns no error for a path unless creating or writing it fails.
NonReuseIgnoresPrior ==
  \A i \in Procs, p \in Paths :
    (Merged(i) /\ ~opt[i].read_rendered_cci) =>
       /\ (result[i] = Ok /\ Contributed(i, p) # {}) =>
             disk[dst[i]][p] = BlankWith(i, p)
       /\ result[i] = Err(p) => fault[p] \in WritePhase

NonReuseIgnoresPriorWitness ==
  /\ Merged(1)
  /\ ~opt[1].read_rendered_cci
  /\ result[1] = Ok
  /\ disk0["doc"]["crates.js"] = GarbageFile
  /\ disk0["doc"]["sub/index.js"] = PriorFile(kind)
  /\ Contributed(1, "crates.js") # {}
  /\ disk["doc"]["sub/index.js"] = BlankWith(1, "sub/index.js")
  /\ Contributed(1, "sub/index.js") = {PartB}

----------------------------------------------------------------------------
(* CrateInfo::read over two record files                                   *)

\* One invocation that lists the two record files, in either order; each
\* file decodes or does not, and holds at most one pair, as does the
\* invocation's own record.
LoadInit ==
  /\ TIdle
  /\ \E prior \in {{}, Paths}, read \in BOOLEAN, ok1 \in BOOLEAN, ok2 \in BOOLEAN,
        a \in PartSeqs(1), b \in PartSeqs(1), c \in PartSeqs(1),
        names \in {<<"r1", "r2">>, <<"r2", "r1">>} :
       /\ Environment(<<"none", "">>, "AllCrates", "slots", prior)
       /\ recFiles = [r \in RecNames |->
                        IF r = "r1" THEN [ok |-> ok1, parts |-> a]
                        ELSE [ok |-> ok2, parts |-> b]]
       /\ own = [i \in Procs |-> c]
       /\ opt = [i \in Procs |-> Options(read, TRUE, names)]
  /\ dst = [i \in Procs |-> "doc"]
  /\ MStart({1})
  /\ JIdle
  /\ XIdle

LoadNext == Step(1)

SpecLoad == LoadInit /\ [][LoadNext]_vars

\* The places in the list of invocation i of the record files that do not
\* load.
BadRecords(i) ==
  {k \in 1..Len(opt[i].parts_paths) : ~recFiles[opt[i].parts_paths[k]].ok}

\* C18: when a listed record file does not load, no record is aggregated,
\* no template is made, no file of the output directory is ever changed, and
\* write_shared returns the error that carries the path of the first such
\* file.
AllOrNothingLoad ==
  \A i \in Procs :
    BadRecords(i) # {} =>
      /\ crates_info[i] = <<>>
      /\ templates[i] = <<>>
      /\ disk[dst[i]] = disk0[dst[i]]
      /\ (pc[i] = "done" /\ result[i] \notin {NoResult, Err(".lock")}) =>
            result[i] = Err(opt[i].parts_paths[Min(BadRecords(i))])

\* The first listed record file has loaded and holds a pair, the second
\* has not, and write_shared has returned.
AllOrNothingLoadWitness ==
  /\ pc[1] = "done"
  /\ BadRecords(1) = {2}
  /\ recFiles[opt[1].parts_paths[1]].parts # <<>>
  /\ result[1] = Err(opt[1].parts_paths[2])
  /\ own[1] # <<>>

----------------------------------------------------------------------------
(* SortedJson::array and SortedJson::object                                *)

MaxItems == 3

\* Vec::insert at the place an insertion sort finds for x = <<key, item>>:
\* behind every element whose key is not greater.
RECURSIVE InsertByKey(_, _)
InsertByKey(sorted, x) ==
  IF sorted = <<>> THEN <<x>>
  ELSE IF StrLess(x[1], sorted[1][1]) THEN <<x>> \o sorted
  ELSE <<sorted[1]>> \o InsertByKey(Tail(sorted), x)

RECURSIVE InsertionSort(_, _)
InsertionSort(sorted, q) ==
  IF q = <<>> THEN sorted
  ELSE InsertionSort(InsertByKey(sorted, q[1]), Tail(q))

Reverse(q) == [k \in 1..Len(q) |-> q[Len(q) + 1 - k]]

\* sorted_unstable_by on <<key, item>> pairs compared by key (Ord for
\* SortedJson is that of its String): ascending keys; the items whose keys
\* compare equal come out in the order of the input or in its reverse,
\* one way for every call of a build.
SortedUnstableBy(q) ==
  IF ties = "kept" THEN InsertionSort(<<>>, q) ELSE InsertionSort(<<>>, Reverse(q))

\* An array_unsorted that sorts as array does.
JsonArraySorting(list) ==
  LET sorted == SortedUnstableBy([k \in 1..Len(list) |-> <<list[k], list[k]>>])
  IN <<"[">> \o JoinWith([k \in 1..Len(list) |-> sorted[k][2]], <<",">>) \o <<"]">>

\* SortedJson::array_unsorted
JsonArrayUnsorted(list) == <<"[">> \o JoinWith(list, <<",">>) \o <<"]">>

\* SortedJson::serialize of an array of numbers: serde_json::to_string
\* writes the elements in the order of the array, compact.
Serialize(list) ==
  <<"[">> \o JoinWith([k \in 1..Len(list) |-> Dec(list[k])], <<",">>) \o <<"]">>

\* An array that leaves the items as they were given.
JsonArrayAsGiven(list) == <<"[">> \o JoinWith(list, <<",">>) \o <<"]">>

\* SortedJson::array
JsonArray(list) ==
  LET sorted == SortedUnstableBy([k \in 1..Len(list) |-> <<list[k], list[k]>>])
  IN <<"[">> \o JoinWith([k \in 1..Len(list) |-> sorted[k][2]], <<",">>) \o <<"]">>

\* SortedJson::object with the pairs left in the order of the input.
JsonObjectUnsorted(pairs) ==
  <<"{">> \o JoinWith([k \in 1..Len(pairs) |-> pairs[k][1] \o <<":">> \o pairs[k][2]],
                      <<",">>) \o <<"}">>

\* An object whose keys are sorted while the values stay where they were given.
JsonObjectLooseValues(pairs) ==
  LET sorted == SortedUnstableBy([k \in 1..Len(pairs) |-> <<pairs[k][1], pairs[k]>>])
  IN <<"{">> \o JoinWith([k \in 1..Len(pairs) |->
                            sorted[k][2][1] \o <<":">> \o pairs[k][2]],
                         <<",">>) \o <<"}">>

\* SortedJson::object
JsonObject(pairs) ==
  LET sorted == SortedUnstableBy([k \in 1..Len(pairs) |-> <<pairs[k][1], pairs[k]>>])
  IN <<"{">> \o JoinWith([k \in 1..Len(pairs) |->
                            sorted[k][2][1] \o <<":">> \o sorted[k][2][2]],
                         <<",">>) \o <<"}">>

\* Items: a string, and two numbers that compare the other way as text.
JsonItems == {PartA, <<"1", "0">>, <<"9">>}

\* Pairs: two keys, two values.
JsonPairs == {PartA, PartB} \X { <<"1">>, <<"1", "0">> }

\* Numbers: the elements of an array value given to serialize.
JsonNumbers == {1, 2, 3, 10}

\* What a call of the given constructor can be given.
JsonInputs(constructor) ==
  CASE constructor = "object" -> JsonPairs
    [] constructor = "serialize" -> JsonNumbers
    [] OTHER -> JsonItems

SeqsUpTo(S, n) == UNION {[1..k -> S] : k \in 0..n}

\* Two calls of one constructor: the second is given the items of the first
\* in some order.
JsonInit ==
  /\ TIdle
  /\ MIdle
  /\ marker = <<>>
  /\ jkind \in {"array", "object", "array_unsorted", "serialize"}
  /\ ties \in {"kept", "reversed"}
  /\ items \in SeqsUpTo(JsonInputs(jkind), MaxItems)
  /\ items2 \in Perms(items)
  /\ json = <<>>
  /\ json2 = <<>>
  /\ XIdle

\* let json = SortedJson::array(items)
ArrayCall ==
  /\ jkind = "array"
  /\ json = <<>>
  /\ json' = JsonArray(items)
  /\ UNCHANGED <<tvars, mvars, marker, jkind, items, items2, json2, ties>>
  /\ UNCHANGED xvars

\* let json2 = SortedJson::array(items2)
ArrayCall2 ==
  /\ jkind = "array"
  /\ json2 = <<>>
  /\ json2' = JsonArray(items2)
  /\ UNCHANGED <<tvars, mvars, marker, jkind, items, items2, json, ties>>
  /\ UNCHANGED xvars

\* let json = SortedJson::object(items)
ObjectCall ==
  /\ jkind = "object"
  /\ json = <<>>
  /\ json' = JsonObject(items)
  /\ UNCHANGED <<tvars, mvars, marker, jkind, items, items2, json2, ties>>
  /\ UNCHANGED xvars

\* let json2 = SortedJson::object(items2)
ObjectCall2 ==
  /\ jkind = "object"
  /\ json2 = <<>>
  /\ json2' = JsonObject(items2)
  /\ UNCHANGED <<tvars, mvars, marker, jkind, items, items2, json, ties>>
  /\ UNCHANGED xvars

\* let json = SortedJson::array_unsorted(items)
ArrayUnsortedCall ==
  /\ jkind = "array_unsorted"
  /\ json = <<>>
  /\ json' = JsonArrayUnsorted(items)
  /\ UNCHANGED <<tvars, mvars, marker, jkind, items, items2, json2, ties>>
  /\ UNCHANGED xvars

\* let json = SortedJson::serialize(items)
SerializeCall ==
  /\ jkind = "serialize"
  /\ json = <<>>
  /\ json' = Serialize(items)
  /\ UNCHANGED <<tvars, mvars, marker, jkind, items, items2, json2, ties>>
  /\ UNCHANGED xvars

JsonNext ==
  \/ ArrayCall \/ ArrayCall2 \/ ObjectCall \/ ObjectCall2
  \/ ArrayUnsortedCall \/ SerializeCall

SpecJson == JsonInit /\ [][JsonNext]_vars

\* Both calls have returned.
BothReturned == json # <<>> /\ json2 # <<>>

\* C19 as stated: two calls of array, or of object, that are given the
\* same items in different orders return the same text.
CanonicalDeterminism ==
  (BothReturned /\ items2 \in Perms(items)) => json = json2

\* Pairs of q with the same key have the same value.
KeysDecide(q) ==
  \A k1, k2 \in 1..Len(q) : q[k1][1] = q[k2][1] => q[k1] = q[k2]

\* C19 as amended: two calls of array that are given the same items in
\* different orders return the same text, and so do two calls of object
\* when no two of the pairs have the same key and different values.
CanonicalDeterminismKeys ==
  (/\ BothReturned
   /\ items2 \in Perms(items)
   /\ jkind = "object" => KeysDecide(items)) => json = json2

CanonicalDeterminismKeysWitness ==
  /\ BothReturned
  /\ jkind = "object"
  /\ Len(items) = 3
  /\ items2 = Reverse(items)
  /\ items2 # items
  /\ KeysDecide(items)
  /\ json = json2

\* C20: array returns its items in ascending byte-wise order of their
\* strings, joined by commas between square brackets: the emitted items are
\* a permutation of the input in which no item is greater than the next.
ArrayAscending ==
  (jkind = "array" /\ json # <<>>) =>
     \E r \in Perms(items) :
       /\ \A k \in 1..(Len(r) - 1) : ~StrLess(r[k + 1], r[k])
       /\ json = <<"[">> \o JoinWith(r, <<",">>) \o <<"]">>

ArrayAscendingWitness ==
  /\ jkind = "array"
  /\ items = << <<"9">>, PartA, <<"1", "0">> >>
  /\ json = <<"[">> \o PartA \o <<",", "1", "0", ",", "9", "]">>


\* C21: object returns its pairs as key:value, joined by commas between
\* braces, in ascending order of the keys, each key with the value it was
\* given with: the emitted pairs are a permutation of the input in which no
\* key is greater than the next.
ObjectAscending ==
  (jkind = "object" /\ json # <<>>) =>
     \E r \in Perms(items) :
       /\ \A k \in 1..(Len(r) - 1) : ~StrLess(r[k + 1][1], r[k][1])
       /\ json = <<"{">>
                 \o JoinWith([k \in 1..Len(r) |-> r[k][1] \o <<":">> \o r[k][2]], <<",">>)
                 \o <<"}">>

ObjectAscendingWitness ==
  /\ jkind = "object"
  /\ items = << <<PartB, <<"1">> >>, <<PartA, <<"1", "0">> >>, <<PartB, <<"1", "0">> >> >>
  /\ json # <<>>
  /\ SubSeq(json, 1, Len(PartA) + 4) = <<"{">> \o PartA \o <<":", "1", "0">>


\* The items between the brackets of an array text, in the order written.
Elements(array) ==
  IF Len(array) = 2 THEN <<>> ELSE SplitOn(SubSeq(array, 2, Len(array) - 1), ",")

\* C22: array_unsorted returns its items between square brackets, joined by
\* commas, in the order they were given, and serialize of an array of
\* numbers writes its elements in the order of the array.
OrderPreserved ==
  /\ (jkind = "array_unsorted" /\ json # <<>>) =>
       /\ Head(json) = "[" /\ json[Len(json)] = "]"
       /\ Elements(json) = items
  /\ (jkind = "serialize" /\ json # <<>>) =>
       /\ Head(json) = "[" /\ json[Len(json)] = "]"
       /\ Elements(json) = [k \in 1..Len(items) |-> Dec(items[k])]

OrderPreservedWitness ==
  /\ jkind = "array_unsorted"
  /\ items = << <<"9">>, PartA, <<"1", "0">> >>
  /\ json = <<"[", "9", ",">> \o PartA \o <<",", "1", "0", "]">>

OrderPreservedSerializeWitness ==
  /\ jkind = "serialize"
  /\ items = <<3, 1, 2>>
  /\ json = <<"[", "3", ",", "1", ",", "2", "]">>


\* The locator of a rendering without contents: {"start":N,"delta":[]}.
EmptyLocator(n) ==
  <<"{", "\"", "s", "t", "a", "r", "t", "\"", ":">> \o Dec(n)
    \o <<",", "\"", "d", "e", "l", "t", "a", "\"", ":", "[", "]", "}">>

\* C23: a template without contents renders as its prefix, its suffix, a
\* newline and the comment holding a locator with the length of the prefix
\* as start and no deltas; parsing that text succeeds and gives the same
\* prefix and suffix and no contents, and a string appended to the parsed
\* template becomes its only content.
EmptyInput ==
  tpl.contents = <<>> =>
    LET rendering == Fmt(tpl, format)
        r == FromStr(rendering, format)
    IN /\ rendering = tpl.before \o tpl.after \o <<"\n">> \o COMMENT_START(format)
                        \o EmptyLocator(Len(tpl.before)) \o COMMENT_END(format)
       /\ phase = "text" => text = rendering
       /\ r.ok
       /\ r.before = tpl.before
       /\ r.after = tpl.after
       /\ r.contents = <<>>
       /\ \A insert \in Frags :
            TemplateAppend(Parsed(r), insert) =
              [before |-> tpl.before, after |-> tpl.after, contents |-> <<insert>>]

\* A template without contents has been rendered and parsed: a prefix of one
\* two-byte character, a suffix that looks like a comment start.
EmptyInputWitness ==
  /\ lastOp = "parse"
  /\ phase = "live"
  /\ reloaded
  /\ supplied = {}
  /\ tpl.contents = <<>>
  /\ tpl.before = <<"C3", "A9">>
  /\ format = "Html"

\* A string has been appended to a template parsed from a rendering without
\* contents, whose suffix holds a newline.
EmptyInputAppendWitness ==
  /\ lastOp = "append"
  /\ reloaded
  /\ Len(tpl.contents) = 1
  /\ "\n" \in Range(tpl.after)
  /\ text = Fmt(BeforeAfter(tpl.before, tpl.after), format)


----------------------------------------------------------------------------
(* <CratesIndexPart as CciPart>::blank_template                            *)

MaxLayout == 3

\* U+FFFC in UTF-8.
ObjChar == <<"EF", "BF", "BC">>

\* Page texts of up to MaxLayout characters, each x or U+FFFC.
RECURSIVE Concat(_)
Concat(q) == IF q = <<>> THEN <<>> ELSE q[1] \o Concat(Tail(q))

LayoutTexts ==
  {Concat(q) : q \in UNION {[1..n -> {<<"x">>, ObjChar}] : n \in 0..MaxLayout}}

\* format!("<h1>List of all crates</h1><ul class=\"all-items\">{magic}</ul>")
Content(magic) ==
  << "<", "h", "1", ">", "L", "i", "s", "t", " ", "o", "f", " ", "a", "l",
     "l", " ", "c", "r", "a", "t", "e", "s", "<", "/", "h", "1", ">", "<",
     "u", "l", " ", "c", "l", "a", "s", "s", "=", "\"", "a", "l", "l", "-",
     "i", "t", "e", "m", "s", "\"", ">" >>
    \o magic \o
  << "<", "/", "u", "l", ">" >>

\* layout::render(layout, &page, "", content, &style_files): the page, with
\* the content in its one place between the texts the layout brings.
LayoutRender(lay, content) == lay[1] \o content \o lay[2]

BlankTemplateInit ==
  /\ format = "Html"
  /\ blank = BeforeAfter(<<>>, <<>>)
  /\ tpl = blank
  /\ tpl2 = blank
  /\ supplied = {}
  /\ calls2 = <<>>
  /\ phase = "loop"
  /\ text = <<>>
  /\ lastOp = "none"
  /\ reloaded = FALSE
  /\ MIdle
  /\ marker = ObjChar
  /\ jkind = "none"
  /\ items = <<>>
  /\ items2 = <<>>
  /\ json = <<>>
  /\ json2 = <<>>
  /\ ties = "kept"
  /\ shared_layout \in LayoutTexts \X LayoutTexts
  /\ CopyIdle
  /\ disk1 = <<>>
  /\ HIdle

\* One turn of the loop of blank_template: render the page around the
\* marker, split it at the marker, return the template or lengthen the
\* marker.
BlankTemplateStep ==
  /\ phase = "loop"
  /\ LET template == LayoutRender(shared_layout, Content(marker))
         r == Magic(template, marker)
     IN /\ text' = template
        /\ IF r.ok
           THEN tpl' = r.t /\ phase' = "returned" /\ marker' = marker
           ELSE tpl' = tpl /\ phase' = "loop" /\ marker' = marker \o ObjChar
  /\ lastOp' = "magic"
  /\ UNCHANGED <<format, blank, tpl2, supplied, calls2, reloaded, mvars>>
  /\ UNCHANGED <<jkind, items, items2, json, json2, ties, xvars>>

SpecBlankTemplate == BlankTemplateInit /\ [][BlankTemplateStep]_vars

\* Weak fairness of BlankTemplateStep, with its enabling condition written
\* out: a turn can be taken exactly while the loop runs, and it changes the
\* marker or leaves the loop.
BlankTemplateStepFair ==
  <>[](phase = "loop") => []<><<BlankTemplateStep>>_vars

\* The loop is one thread running: a turn that can be taken is taken.
SpecBlankTemplateFair == SpecBlankTemplate /\ BlankTemplateStepFair

\* blank_template has returned a template cut at the only place where the
\* marker is in the page.
ReturnedAtOnlyMarker ==
  /\ text = LayoutRender(shared_layout, Content(marker))
  /\ Cardinality(MarkerAt(text, marker)) = 1
  /\ LET i == CHOOSE j \in MarkerAt(text, marker) : TRUE
     IN tpl = [before |-> SubSeq(text, 1, i),
               after |-> SubSeq(text, i + Len(marker) + 1, Len(text)),
               contents |-> <<>>]

\* C24: whatever text the layout puts around the content, the loop of
\* blank_template for the crate index returns after finitely many turns, and
\* when it has returned the marker is in the page exactly once and the
\* template has no contents and the page text before and after the marker
\* as prefix and suffix.
MarkerRetryTerminates ==
  /\ <>(phase = "returned")
  /\ [](phase = "returned" => ReturnedAtOnlyMarker)

\* Returned after two retries, the layout holding the marker on its own and
\* twice in a row.
MarkerRetryTerminatesWitness ==
  /\ phase = "returned"
  /\ marker = ObjChar \o ObjChar \o ObjChar
  /\ shared_layout = <<ObjChar \o <<"x">>, ObjChar \o ObjChar>>

----------------------------------------------------------------------------
(* copy_dir_all                                                            *)

NumCopyPaths == 5

\* The paths that tests::create_paths is given, as (components, kind): a/,
\* a, a/b, c, a/b/ and a/b/c.
CopyPathPool ==
  << << <<"a">>, "dir" >>,
     << <<"a">>, "file" >>,
     << <<"a", "b">>, "file" >>,
     << <<"c">>, "file" >>,
     << <<"a", "b">>, "dir" >>,
     << <<"a", "b", "c">>, "file" >> >>

\* Every path below a root that a tree can hold; <<>> is the root itself.
CopyPaths ==
  UNION {{SubSeq(CopyPathPool[k][1], 1, n) : n \in 0..Len(CopyPathPool[k][1])} :
           k \in 1..Len(CopyPathPool)}

IsUnder(p, q) == Len(q) < Len(p) /\ SubSeq(p, 1, Len(q)) = q

\* What a tree holds at a path: nothing, a directory, or a file, which is
\* the pair of "file" and its data.
Nothing == <<"none", "">>
Directory == <<"dir", "">>

\* tests::create_paths(root, S) in an empty directory: create_dir_all for
\* the directories and the parents, fs::write for the files.
CreatePaths(S, data) ==
  [p \in CopyPaths |->
     IF p = <<>> THEN Directory
     ELSE IF \E e \in S : e[1] = p /\ e[2] = "file" THEN <<"file", data>>
     ELSE IF \E e \in S : e[1] = p \/ IsUnder(e[1], p) THEN Directory
     ELSE Nothing]

\* The trees under a root: what create_paths makes of some of the first
\* NumCopyPaths paths of the pool, where it can make them all (no path is
\* both a file and a directory, and no file is on the way to another path),
\* and a root that is no directory but nothing or a file.
CopyTrees(data) ==
  LET entries == {CopyPathPool[k] : k \in 1..Min({NumCopyPaths, Len(CopyPathPool)})}
      CanCreate(S) == \A e1, e2 \in S :
                        /\ e1[1] = e2[1] => e1 = e2
                        /\ IsUnder(e1[1], e2[1]) => e2[2] = "dir"
  IN {CreatePaths(S, data) : S \in {T \in SUBSET entries : CanCreate(T)}}
       \cup {[p \in CopyPaths |-> IF p = <<>> THEN root ELSE Nothing] :
                root \in {Nothing, <<"file", data>>}}

\* read_dir: the entries of directory rel of tree t.
ReadDir(t, rel) ==
  {p \in CopyPaths : Len(p) = Len(rel) + 1 /\ IsUnder(p, rel) /\ t[p] # Nothing}

CopyInit ==
  /\ TIdle
  /\ MIdle
  /\ JIdle
  /\ shared_layout = << <<>>, <<>> >>
  /\ disk1 = <<>>
  /\ HIdle
  /\ fs0 \in [src : CopyTrees("s"), dst : CopyTrees("d")]
  /\ fs = fs0
  /\ dirs = <<>>
  /\ reading = [rel |-> <<>>, left |-> {}]
  /\ copy_pc = "start"
  /\ copy_result = "none"

\* copy_dir_all_mono up to the loop: both paths must be directories.
CopyChecks ==
  /\ copy_pc = "start"
  /\ IF fs.src[<<>>] # Directory \/ fs.dst[<<>>] # Directory
     THEN copy_result' = "err" /\ copy_pc' = "done" /\ UNCHANGED dirs
     ELSE dirs' = << <<>> >> /\ copy_pc' = "loop" /\ UNCHANGED copy_result
  /\ UNCHANGED <<fs0, fs, reading>>
  /\ UNCHANGED <<tvars, mvars, jvars, shared_layout, disk1, hvars>>

\* while let Some((src, dst)) = dirs.pop(): create_dir(&dst), where a path
\* that exists already is let through, then src.read_dir().
CopyPop ==
  /\ copy_pc = "loop"
  /\ IF dirs = <<>>
     THEN copy_result' = "ok" /\ copy_pc' = "done" /\ UNCHANGED <<fs, dirs, reading>>
     ELSE
       LET rel == dirs[Len(dirs)]
           parent == SubSeq(rel, 1, Len(rel) - 1)
       IN /\ dirs' = SubSeq(dirs, 1, Len(dirs) - 1)
          /\ IF fs.dst[rel] = Nothing /\ fs.dst[parent] # Directory
             THEN copy_result' = "err" /\ copy_pc' = "done" /\ UNCHANGED <<fs, reading>>
             ELSE
               /\ fs' = IF fs.dst[rel] = Nothing
                        THEN [fs EXCEPT !.dst[rel] = Directory]
                        ELSE fs
               /\ reading' = [rel |-> rel, left |-> ReadDir(fs.src, rel)]
               /\ copy_pc' = IF ReadDir(fs.src, rel) = {} THEN "loop" ELSE "entries"
               /\ UNCHANGED copy_result
  /\ UNCHANGED fs0
  /\ UNCHANGED <<tvars, mvars, jvars, shared_layout, disk1, hvars>>

\* for entry in src.read_dir()?: one entry, in whatever order the directory
\* yields them; a directory is pushed, anything else is copied with fs::copy,
\* which fails when the target is a directory or its parent is none.
CopyEntry ==
  /\ copy_pc = "entries"
  /\ \E p \in reading.left :
       /\ reading' = [reading EXCEPT !.left = @ \ {p}]
       /\ IF fs.src[p] = Directory
          THEN /\ dirs' = Append(dirs, p)
               /\ copy_pc' = IF reading.left = {p} THEN "loop" ELSE "entries"
               /\ UNCHANGED <<fs, copy_result>>
          ELSE IF fs.dst[reading.rel] # Directory \/ fs.dst[p] = Directory
          THEN copy_result' = "err" /\ copy_pc' = "done" /\ UNCHANGED <<fs, dirs>>
          ELSE /\ fs' = [fs EXCEPT !.dst[p] = fs.src[p]]
               /\ copy_pc' = IF reading.left = {p} THEN "loop" ELSE "entries"
               /\ UNCHANGED <<dirs, copy_result>>
  /\ UNCHANGED fs0
  /\ UNCHANGED <<tvars, mvars, jvars, shared_layout, disk1, hvars>>

SpecCopy == CopyInit /\ [][CopyChecks \/ CopyPop \/ CopyEntry]_vars

\* C25: when src and dst are directories and copy_dir_all returns Ok, every
\* directory under src is a directory at the same path under dst and every
\* file under src is a file with the same data there; the tree under src is
\* never changed; when src or dst is no directory the call returns an error
\* and nothing is created or copied.
CopyPostcondition ==
  /\ copy_result = "ok" =>
       \A p \in CopyPaths : fs0.src[p] # Nothing => fs.dst[p] = fs0.src[p]
  /\ fs.src = fs0.src
  /\ (fs0.src[<<>>] # Directory \/ fs0.dst[<<>>] # Directory) =>
       /\ fs = fs0
       /\ copy_pc = "done" => copy_result = "err"

----------------------------------------------------------------------------
(* Two merge passes on one output directory, one after the other           *)

\* Two invocations on the same output directory with read_rendered_cci: each
\* merges its own parts with those of the record r1, and the second has the
\* parts of the first again (a rebuild that changed nothing) or others.
PassInit ==
  /\ TIdle
  /\ \E e \in Anomalies \X Kinds \X Layouts \X SUBSET Paths,
        ab \in RecordPairs, same \in BOOLEAN,
        r \in {<<>>, << <<"crates.js", PartA>> >>} :
       /\ e[1][2] \in {"", "crates.js"}
       /\ e[1][1] \notin {"mkdir", "write_none", "write_most"}
       /\ e[1][1] # "none" => e[2] = "AllCrates"
       /\ e[3] = "slots"
       /\ e[4] \in {{}, Paths}
       /\ Environment(e[1], e[2], e[3], e[4])
       /\ recFiles = [n \in RecNames |-> [ok |-> TRUE, parts |-> r]]
       /\ own = [i \in Procs |-> IF i = 1 \/ same THEN ab[1] ELSE ab[2]]
       /\ opt = [i \in Procs |-> Options(TRUE, TRUE, <<"r1">>)]
  /\ dst = [i \in Procs |-> "doc"]
  /\ MStart(Procs)
  /\ JIdle
  /\ shared_layout = << <<>>, <<>> >>
  /\ CopyIdle
  /\ disk1 = <<>>
  /\ HIdle

\* The first pass has returned: the files are looked at before the second
\* pass starts.
BetweenPasses ==
  /\ pc[1] = "done"
  /\ disk1 = <<>>
  /\ disk1' = disk
  /\ UNCHANGED <<tvars, mvars, jvars, shared_layout, cvars, hvars>>

SpecPasses ==
  PassInit /\ [][Step(1) \/ BetweenPasses \/ (disk1 # <<>> /\ Step(2))]_vars

\* Both passes have returned.
PassesOver == disk1 # <<>> /\ pc[2] = "done"

\* C26: with read_rendered_cci, a second pass that merges the same records
\* as the first leaves every output file as it was after the first pass.
RerunIdempotent ==
  (PassesOver /\ Merged(1) /\ Merged(2) /\ own[2] = own[1]) => disk = disk1

\* Both passes have come to write two parts into each of the two files that
\* were there before.
RerunIdempotentWitness ==
  /\ PassesOver
  /\ own[2] = own[1]
  /\ Len(own[1]) = 2
  /\ own[1][1][1] # own[1][2][1]
  /\ result[1] = Ok
  /\ result[2] = Ok
  /\ disk0["doc"]["crates.js"].exists
  /\ disk["doc"] # disk0["doc"]


\* The template that a file holds, and the blank one where there is no file.
TemplateIn(file) ==
  IF file.exists THEN FromStr(file.data, FileFormatOf(kind))
  ELSE [ok |-> TRUE] @@ BlankTemplate(kind)

\* Pass i, from the files before to the files after, has added the parts it
\* contributed to what each file held, and has changed nothing else.
AppendedOnly(i, before, after) ==
  \A p \in Paths :
    IF Contributed(i, p) = {} THEN after[p] = before[p]
    ELSE LET old == TemplateIn(before[p])
             new == TemplateIn(after[p])
         IN /\ after[p].exists
            /\ old.ok
            /\ new.ok
            /\ Range(new.contents) = Range(old.contents) \cup Contributed(i, p)
            /\ Cardinality(Range(new.contents)) = Len(new.contents)
            /\ \A part \in Range(new.contents) : Count(after[p], part) = 1
            /\ new.before = old.before
            /\ new.after = old.after

\* C27: with read_rendered_cci, after a merge pass that returned Ok each
\* output file holds every part it held before the pass and every part the
\* pass contributed to its path, each once, between the prefix and the suffix
\* it had; no part is removed, in the first pass or in the second.
AppendOnlyPasses ==
  /\ (disk1 # <<>> /\ result[1] = Ok) => AppendedOnly(1, disk0["doc"], disk1["doc"])
  /\ (PassesOver /\ result[2] = Ok) => AppendedOnly(2, disk1["doc"], disk["doc"])

\* The second pass has contributed another part for crates.js than the
\* first: the file holds both, and the parts that were there before.
AppendOnlyPassesWitness ==
  /\ PassesOver
  /\ result[1] = Ok
  /\ result[2] = Ok
  /\ disk0["doc"]["crates.js"].exists
  /\ Contributed(1, "crates.js") = {PartA}
  /\ Contributed(2, "crates.js") = {PartB}
  /\ Range(TemplateIn(disk["doc"]["crates.js"]).contents) = {PartA, PartB, PartC}


\* The file that a pass with read_rendered_cci writes for a path to which
\* it contributes one part: the template in the file, or the blank one, with
\* the part appended, rendered.
AfterPass(file, part) ==
  LET t == TemplateIn(file)
  IN File(Fmt(TemplateAppend([before |-> t.before, after |-> t.after,
                              contents |-> t.contents], part),
              FileFormatOf(kind)))

\* C28: when two invocations on one output directory with read_rendered_cci,
\* running in any interleaving, each contribute a part for the same path and
\* both return Ok, the file of that path holds both parts and is the file
\* that the two invocations leave when one runs after the other, in either
\* order.
NoLostUpdate ==
  \A p \in Paths :
    ( /\ pc[1] = "done" /\ pc[2] = "done"
      /\ result[1] = Ok /\ result[2] = Ok
      /\ opt[1].read_rendered_cci
      /\ dst[1] = dst[2]
      /\ Len(own[1]) = 1 /\ Len(own[2]) = 1
      /\ own[1][1][1] = p /\ own[2][1][1] = p ) =>
      LET a == own[1][1][2]
          b == own[2][1][2]
          final == disk[dst[1]][p]
      IN /\ Count(final, a) = 1
         /\ Count(final, b) = 1
         /\ final = AfterPass(AfterPass(disk0[dst[1]][p], a), b)
         /\ final = AfterPass(AfterPass(disk0[dst[1]][p], b), a)

\* Both invocations have returned Ok after contributing different parts for
\* crates.js, which held a file before.
NoLostUpdateWitness ==
  /\ pc[1] = "done" /\ pc[2] = "done"
  /\ result[1] = Ok /\ result[2] = Ok
  /\ opt[1].read_rendered_cci
  /\ own[1] = << <<"crates.js", PartB>> >>
  /\ own[2] = << <<"crates.js", PartA>> >>
  /\ disk0["doc"]["crates.js"].exists
  /\ Count(disk["doc"]["crates.js"], PartB) = 1

----------------------------------------------------------------------------
\* The source files directory tree (write_shared.rs, Hierarchy). A node is
\* named by the names that lead to it from the root; hierarchy maps each
\* node that exists to its children (the keys of its map) and its elems.

MaxPathLen == 4

\* The `..` arm of add_path with the ascent left out.
AscendNowhere(node) == node

\* if let Some(parent) = h.parent.upgrade() { h = parent; }: the parent of
\* the node, the node itself at the root, whose parent is Weak::new().
Ascend(node) ==
  IF node = <<>> THEN node ELSE SubSeq(node, 1, Len(node) - 1)

\* The relative paths given to add_path, as their components: names, `..`
\* and, in the first place only, `.`.
HierarchyPaths ==
  LET Tails == UNION {[1..n -> {"a", "b", ".."}] : n \in 1..MaxPathLen}
  IN Tails \cup {<<".">>, <<".", "a">>, <<".", "..">>}

\* Rc::new(Hierarchy::default()) and the paths that for_each will add.
HierarchyInit ==
  /\ TIdle
  /\ MIdle
  /\ JIdle
  /\ shared_layout = << <<>>, <<>> >>
  /\ CopyIdle
  /\ disk1 = <<>>
  /\ hierarchy = (<<>> :> [children |-> {}, elems |-> {}])
  /\ sources \in {<<p>> : p \in HierarchyPaths}
                   \cup {<<p, q>> : p \in HierarchyPaths,
                                    q \in {<<"a", "b">>, <<"..", "a">>, <<"a", "..">>}}
  /\ file_path = <<>>
  /\ h = <<>>
  /\ elems = <<>>
  /\ add_pc = "idle"

\* for_each(|source| hierarchy.add_path(source)): the call, up to the loop.
\* The iterator keeps the Normal and ParentDir components.
AddPath ==
  /\ add_pc \in {"idle", "done"}
  /\ sources # <<>>
  /\ file_path' = Head(sources)
  /\ sources' = Tail(sources)
  /\ h' = <<>>
  /\ elems' = SelectSeq(Head(sources), LAMBDA s : s # ".")
  /\ add_pc' = "loop"
  /\ UNCHANGED <<tvars, mvars, jvars, shared_layout, cvars, disk1, hierarchy>>

\* One turn of the loop of add_path.
AddPathStep ==
  /\ add_pc = "loop"
  /\ IF elems = <<>>
       THEN \* elems.next().expect("empty file path")
            /\ add_pc' = "panic"
            /\ UNCHANGED <<hierarchy, h, elems>>
       ELSE LET cur_elem == Head(elems)
                entry == Append(h, cur_elem)
            IN /\ elems' = Tail(elems)
               /\ IF cur_elem = ".."
                    THEN /\ h' = Ascend(h)
                         /\ UNCHANGED <<hierarchy, add_pc>>
                    ELSE IF Tail(elems) = <<>>
                    THEN /\ hierarchy' = [hierarchy EXCEPT ![h].elems = @ \cup {cur_elem}]
                         /\ add_pc' = "done"
                         /\ UNCHANGED h
                    ELSE /\ hierarchy' =
                              IF cur_elem \in hierarchy[h].children
                                THEN hierarchy
                                ELSE [hierarchy EXCEPT ![h].children = @ \cup {cur_elem}]
                                       @@ (entry :> [children |-> {}, elems |-> {}])
                         /\ h' = entry
                         /\ UNCHANGED add_pc
  /\ UNCHANGED <<tvars, mvars, jvars, shared_layout, cvars, disk1, sources, file_path>>

SpecHierarchy == HierarchyInit /\ [][AddPath \/ AddPathStep]_vars

\* The node reached from a node by descending through components: a name
\* leads to the child of that name, `..` to the parent and nowhere at the
\* root, `.` nowhere.
RECURSIVE Descend(_, _)
Descend(node, components) ==
  IF components = <<>> THEN node
  ELSE LET c == Head(components)
       IN Descend(IF c = "." THEN node
                  ELSE IF c = ".." THEN (IF node = <<>> THEN <<>>
                                         ELSE SubSeq(node, 1, Len(node) - 1))
                  ELSE Append(node, c),
                  Tail(components))

\* The last component of the path is a file name of the node its preceding
\* components lead to, and every node on the way exists as a child of the
\* node above it.
Recorded ==
  LET n == Len(file_path)
      At(k) == Descend(<<>>, SubSeq(file_path, 1, k))
  IN /\ \A k \in 0..(n - 1) :
          /\ At(k) \in DOMAIN hierarchy
          /\ At(k) # <<>> =>
               At(k)[Len(At(k))] \in hierarchy[Descend(At(k), <<"..">>)].children
     /\ file_path[n] \in hierarchy[At(n - 1)].elems

\* Every turn of the loop that does not leave it takes a component from
\* the iterator, so the loop is left after finitely many turns.
LoopConsumes ==
  [][add_pc = "loop" /\ add_pc' = "loop" => Len(elems') < Len(elems)]_vars

HasComponent(p) == \E k \in 1..Len(p) : p[k] # "."

EndsNormal(p) == p # <<>> /\ p[Len(p)] \notin {".", ".."}

\* C29 as stated: for every relative path with at least one normal or
\* parent-directory component, add_path leaves its loop after finitely many
\* turns without panicking, and has then recorded the last component as a
\* file name in the node the preceding components lead to.
AddPathRecordsAny ==
  /\ LoopConsumes
  /\ [](HasComponent(file_path) => add_pc # "panic")
  /\ [](add_pc = "done" => Recorded)

\* C29: for every relative path whose last component is a normal component,
\* add_path leaves its loop after finitely many turns without panicking, and
\* has then recorded that last component as a file name in the node reached
\* from the root by descending through the preceding components, missing
\* child nodes created, `..` leading to the parent and nowhere at the root.
AddPathRecords ==
  /\ LoopConsumes
  /\ [](EndsNormal(file_path) => add_pc # "panic")
  /\ [](add_pc = "done" /\ EndsNormal(file_path) => Recorded)

\* A second path was added below nodes the first one made, after a first
\* path that went down two nodes and up one.
AddPathRecordsWitness ==
  /\ add_pc = "done"
  /\ sources = <<>>
  /\ file_path = <<"a", "b">>
  /\ hierarchy[<<"a">>].elems = {"a", "b"}
  /\ <<"a", "b">> \in DOMAIN hierarchy

====
